---------------------------- MODULE Spec2Model ----------------------------
(***************************************************************************)
(* A model of the contact-number tutorial: the routing shell, the widgets' *)
(* local view state, the frame callbacks of the animated scenes, the       *)
(* memoised surface buffers and the closed-form geometry helpers.          *)
(*                                                                         *)
(* Real numbers are fixed-point integers: a value x stands for x / SCALE.  *)
(* Wall-clock time is counted in ticks of 0.01 s; a rotation is counted in *)
(* units of 0.0001 rad, so that every rate of the code (0.3 rad/s, ...) is *)
(* a whole number of units per tick.                                       *)
(***************************************************************************)
EXTENDS Integers, Sequences, FiniteSets, TLC

VARIABLES
    path,           \* the browser URL, as its sequence of path segments
    rendered,       \* the element chain react-router renders for path
    language,       \* i18n.language, the active locale
    now,            \* wall-clock time, in ticks
    clockStart,     \* canvas -> the tick at which its THREE.Clock started
    oldTime,        \* canvas -> the tick of its clock's last getDelta()
    time,           \* scene -> its `time` state (only mounted scenes)
    shape,          \* TangentNormalVizWithLabels: useState('sphere')
    direction,      \* ContactNumberVizWithControls (cylinder): useState('axial')
    selected,       \* Chapter1Viz: useState('sphere')
    contactNumber,  \* ContactNumberVizWithControls (sphere): useState(3)
    clicked,        \* widget -> the value of the button last clicked, or "none"
    rotation,       \* mesh or group -> its rotation [x, y]
    memo,           \* surface -> the useMemo cell of its buffers
    curvature,      \* SecondFundamentalFormScene: useState(1), fixed-point
    input,          \* the argument handed to a geometry helper
    output          \* what the helper returned for it

vars == <<path, rendered, language, now, clockStart, oldTime, time, shape, direction,
          selected, contactNumber, clicked, rotation, memo,
          curvature, input, output>>

routeVars == <<path, rendered, language>>
uiVars == <<shape, direction, selected, contactNumber, clicked>>
clockVars == <<now, clockStart, oldTime, time>>
animVars == <<rotation>>
memoVars == <<memo, curvature>>
fnVars == <<input, output>>

-----------------------------------------------------------------------------
(* Bounds of the model.                                                    *)

MaxSegs == 3
MaxNow == 2
MaxElapsed == 3
MaxRenders == 2
MaxTicks == 7
NMax == 3
MaxTime == 320
MaxChapter == 9

\* The floating-point tolerance of the numerical claims, in units of
\* 1 / SCALE.
Eps == 4

\* The resolution of the fixed-point numbers: x stands for x / SCALE.
SCALE == 10000

-----------------------------------------------------------------------------
(* Fixed-point arithmetic in place of the code's IEEE doubles: every       *)
(* operation rounds its result to the nearest multiple of 1 / SCALE.       *)

Abs(a) == IF a < 0 THEN -a ELSE a

\* a / b rounded to the nearest integer, b > 0.
RDiv(a, b) == (a + b \div 2) \div b

\* The product of two fixed-point numbers.
Mul(a, b) == RDiv(a * b, SCALE)

\* The decimal literal num / den of the code, e.g. 0.3 is Lit(3, 10).
Lit(num, den) == RDiv(num * SCALE, den)

RECURSIVE SqrtSearch(_, _, _)
SqrtSearch(n, lo, hi) ==
    IF lo >= hi THEN lo
    ELSE LET mid == (lo + hi + 1) \div 2
         IN  IF mid * mid <= n THEN SqrtSearch(n, mid, hi)
             ELSE SqrtSearch(n, lo, mid - 1)

\* Math.sqrt of n / SCALE^2, as a fixed-point number, rounded to nearest.
SqrtOfSquares(n) ==
    LET r == SqrtSearch(n, 0, 46340)
    IN  IF n - r * r > r THEN r + 1 ELSE r

\* Math.PI.
Pi == RDiv(31416 * SCALE, 10000)
HalfPi == Pi \div 2
TwoPi == 2 * Pi

\* Math.sin on [0, pi/2]: the Taylor polynomial up to x^9, in Horner form.
SinQuadrant(x) ==
    LET x2 == Mul(x, x)
        t4 == SCALE - RDiv(x2, 72)
        t3 == SCALE - RDiv(Mul(x2, t4), 42)
        t2 == SCALE - RDiv(Mul(x2, t3), 20)
        t1 == SCALE - RDiv(Mul(x2, t2), 6)
    IN  Mul(x, t1)

\* Math.sin: the argument reduced to a quadrant.
Sin(x) ==
    LET r == x % TwoPi
    IN  IF r <= HalfPi THEN SinQuadrant(r)
        ELSE IF r <= Pi THEN SinQuadrant(Pi - r)
        ELSE IF r <= Pi + HalfPi THEN -SinQuadrant(r - Pi)
        ELSE -SinQuadrant(TwoPi - r)

\* Math.cos.
Cos(x) == Sin(x + HalfPi)

\* new THREE.Vector3(x, y, z).
Vector3(x, y, z) == [x |-> x, y |-> y, z |-> z]

\* Vector3.dot.
Dot(a, b) == Mul(a.x, b.x) + Mul(a.y, b.y) + Mul(a.z, b.z)

\* Vector3.length.
Length(a) == SqrtOfSquares(a.x * a.x + a.y * a.y + a.z * a.z)

\* Vector3.multiplyScalar.
MultiplyScalar(a, k) == Vector3(Mul(a.x, k), Mul(a.y, k), Mul(a.z, k))

\* Vector3.divideScalar.
DivideScalar(a, k) ==
    Vector3(RDiv(a.x * SCALE, k), RDiv(a.y * SCALE, k), RDiv(a.z * SCALE, k))

\* Vector3.normalize: divideScalar(length() || 1).
Normalize(a) ==
    LET len == Length(a)
    IN  DivideScalar(a, IF len = 0 THEN SCALE ELSE len)

\* Vector3.add, Vector3.sub.
Add(a, b) == Vector3(a.x + b.x, a.y + b.y, a.z + b.z)
Sub(a, b) == Vector3(a.x - b.x, a.y - b.y, a.z - b.z)

\* Vector3.crossVectors(a, b).
CrossVectors(a, b) ==
    Vector3(Mul(a.y, b.z) - Mul(a.z, b.y),
            Mul(a.z, b.x) - Mul(a.x, b.z),
            Mul(a.x, b.y) - Mul(a.y, b.x))

-----------------------------------------------------------------------------
(* Routing: App's route table and react-router's matchRoutes.              *)

Segments == {"chapter", "1", "2", "3", "5", "about"}

RECURSIVE SeqsUpTo(_, _)
SeqsUpTo(S, n) ==
    IF n = 0 THEN {<<>>}
    ELSE LET shorter == SeqsUpTo(S, n - 1)
         IN  shorter \cup {Append(p, s) : p \in shorter, s \in S}

Paths == SeqsUpTo(Segments, MaxSegs)

\* The three-route table of the first App of App.tsx (no chapter/2, chapter/5).
AppRoutes3 ==
    << [path |-> <<>>,               index |-> TRUE,  element |-> "Home"],
       [path |-> <<"chapter", "1">>, index |-> FALSE, element |-> "Chapter1"],
       [path |-> <<"chapter", ":id">>, index |-> FALSE, element |-> "Chapter"] >>

\* The children of <Route path="/" element={<Layout />}>, in source order.
AppRoutes ==
    << [path |-> <<>>,               index |-> TRUE,  element |-> "Home"],
       [path |-> <<"chapter", "1">>, index |-> FALSE, element |-> "Chapter1"],
       [path |-> <<"chapter", "2">>, index |-> FALSE, element |-> "Chapter2"],
       [path |-> <<"chapter", "5">>, index |-> FALSE, element |-> "Chapter5"],
       [path |-> <<"chapter", ":id">>, index |-> FALSE, element |-> "Chapter"] >>

\* flattenRoutes: one branch per child, chained under the Layout route, and
\* the Layout route alone (it has a path of its own).
Branches ==
    [i \in 1..(Len(AppRoutes) + 1) |->
        IF i <= Len(AppRoutes)
        THEN [path |-> AppRoutes[i].path, index |-> AppRoutes[i].index,
              elements |-> <<"Layout", AppRoutes[i].element>>, order |-> i]
        ELSE [path |-> <<>>, index |-> FALSE,
              elements |-> <<"Layout">>, order |-> i]]

IsParam(seg) == seg = ":id"

RECURSIVE SegmentScore(_)
SegmentScore(p) ==
    IF p = <<>> THEN 0
    ELSE (IF IsParam(Head(p)) THEN 3 ELSE 10) + SegmentScore(Tail(p))

\* computeScore: the number of segments, 2 for an index route, 10 for a
\* static segment and 3 for a dynamic one.
ComputeScore(b) ==
    Len(b.path) + (IF b.index THEN 2 ELSE 0) + SegmentScore(b.path)

\* matchPath: the whole URL against the whole pattern, segment by segment.
MatchPath(pattern, url) ==
    /\ Len(pattern) = Len(url)
    /\ \A i \in 1..Len(pattern) : IsParam(pattern[i]) \/ pattern[i] = url[i]

\* rankRouteBranches: higher score first, source order among equal scores.
Outranks(a, b) ==
    \/ ComputeScore(a) > ComputeScore(b)
    \/ ComputeScore(a) = ComputeScore(b) /\ a.order < b.order

\* matchRoutes: the best-ranked branch that matches; nothing renders when
\* none does.
MatchRoutes(url) ==
    LET matching == {i \in DOMAIN Branches : MatchPath(Branches[i].path, url)}
    IN  IF matching = {} THEN <<>>
        ELSE LET best == CHOOSE i \in matching :
                            \A j \in matching \ {i} :
                                Outranks(Branches[i], Branches[j])
             IN  Branches[best].elements

\* The user enters a URL, or follows a link to it.
Navigate(url) ==
    /\ path' = url
    /\ rendered' = MatchRoutes(url)
    /\ UNCHANGED <<language, uiVars, clockVars, animVars, memoVars, fnVars>>

-----------------------------------------------------------------------------
(* Initial state of what a specification leaves alone.                     *)

RouteInit ==
    /\ path = <<>>
    /\ rendered = MatchRoutes(<<>>)
    /\ language = "zh"

UiInit ==
    /\ shape = "sphere"
    /\ direction = "axial"
    /\ selected = "sphere"
    /\ contactNumber = 3
    /\ clicked = [w \in {"shape", "direction", "selected"} |-> "none"]

ClockInit ==
    /\ now = 0
    /\ clockStart = << >>
    /\ oldTime = << >>
    /\ time = << >>

AnimInit == rotation = << >>

MemoInit == memo = << >> /\ curvature = 0

FnInit == input = "none" /\ output = "none"

-----------------------------------------------------------------------------
(* The routing shell on its own.                                           *)

RouteNext == \E url \in Paths : Navigate(url)

InitRoute ==
    RouteInit /\ UiInit /\ ClockInit /\ AnimInit /\ MemoInit /\ FnInit

SpecRoute == InitRoute /\ [][RouteNext]_vars

\* C1: the URL path alone selects the page: "/" renders Home, "/chapter/1",
\* "/chapter/2" and "/chapter/5" render their dedicated chapters (the dedicated
\* route wins over "chapter/:id"), "/chapter/<id>" renders the generic Chapter
\* for every other id, and whatever is rendered is the Outlet of Layout.
C1_PathSelectsPage ==
    /\ path = <<>> => rendered = <<"Layout", "Home">>
    /\ path = <<"chapter", "1">> => rendered = <<"Layout", "Chapter1">>
    /\ path = <<"chapter", "2">> => rendered = <<"Layout", "Chapter2">>
    /\ path = <<"chapter", "5">> => rendered = <<"Layout", "Chapter5">>
    /\ \A id \in Segments \ {"1", "2", "5"} :
          path = <<"chapter", id>> => rendered = <<"Layout", "Chapter">>
    /\ rendered # <<>> => Len(rendered) = 2 /\ rendered[1] = "Layout"

C1_Witness == path = <<"chapter", "5">> /\ rendered = <<"Layout", "Chapter5">>

-----------------------------------------------------------------------------
(* The widgets: local view state, selector buttons, frame callbacks.       *)

ShapeTypes == {"sphere", "torus", "cylinder"}
DirectionModes == {"axial", "circumferential", "diagonal"}
ManifoldTypes == {"sphere", "torus", "klein", "mobius"}
SliderValues == 2..4

\* The canvases of the four widgets, one THREE.Clock each.
UiCanvases == {"TangentNormalViz", "CylinderContact", "Chapter1Viz",
               "SphereContact"}

\* clock.getDelta() of canvas c, in ticks.
Delta(c) == now - oldTime[c]

\* A callback that reads the clock's delta where the elapsed time is meant.
ElapsedAsDelta(c) == Delta(c)

\* clock.getElapsedTime() of canvas c, in ticks.
Elapsed(c) == now - clockStart[c]

\* Rates of the ManifoldShapes rotations, in 0.0001 rad per tick of 0.01 s:
\* the code's factors 0.3, 0.2, 0.15, 0.25 on a delta in seconds.
ManifoldRate(m) ==
    CASE m = "sphere" -> [x |-> 0,  y |-> 30]
      [] m = "torus"  -> [x |-> 20, y |-> 30]
      [] m = "klein"  -> [x |-> 15, y |-> 25]
      [] m = "mobius" -> [x |-> 0,  y |-> 30]

NoRotation == [x |-> 0, y |-> 0]

\* ManifoldShapes: ref.current.rotation.x/y += delta * rate, for the shape m.
RotateManifold(rot, m, delta) ==
    [x |-> rot.x + delta * ManifoldRate(m).x,
     y |-> rot.y + delta * ManifoldRate(m).y]

\* CylinderContactScene: rotation.y = clock.getElapsedTime() * 0.1.
CylinderRotationY(elapsed) == elapsed * 10

\* A widget's wall clock advances between two events.
Tick ==
    /\ now < MaxNow
    /\ now' = now + 1
    /\ UNCHANGED <<routeVars, uiVars, clockStart, oldTime, time, animVars,
                   memoVars, fnVars>>

\* The value the shape button s hands to setShape.
OnClickShape(s) == s

\* TangentNormalVizWithLabels: onClick={() => setShape(s)}.
ClickShape(s) ==
    /\ shape' = OnClickShape(s)
    /\ clicked' = [clicked EXCEPT !["shape"] = s]
    /\ UNCHANGED <<routeVars, direction, selected, contactNumber, clockVars,
                   animVars, memoVars, fnVars>>

\* A stale closure: the handler sets the value it was rendered with.
OnClickDirectionStale(d) == direction

\* The value the direction button d hands to setDirection.
OnClickDirection(d) == d

\* ContactNumberVizWithControls (cylinder): onClick={() => setDirection(d)}.
ClickDirection(d) ==
    /\ direction' = OnClickDirection(d)
    /\ clicked' = [clicked EXCEPT !["direction"] = d]
    /\ UNCHANGED <<routeVars, shape, selected, contactNumber, clockVars,
                   animVars, memoVars, fnVars>>

\* Chapter1Viz: onClick={() => setSelected(m.id)}. renderManifold returns
\* another component for another id, so the shown mesh is replaced by a new
\* one, whose rotation is that of a new Object3D.
ClickManifold(m) ==
    /\ selected' = m
    /\ clicked' = [clicked EXCEPT !["selected"] = m]
    /\ rotation' = IF m = selected THEN rotation
                   ELSE [rotation EXCEPT !["manifold"] = NoRotation]
    /\ UNCHANGED <<routeVars, shape, direction, contactNumber, clockVars,
                   memoVars, fnVars>>

\* A slider handler that also derives the cylinder widget's direction from
\* the value, the way the default export ContactNumberViz derives one.
SlideContactNumberShared(k) ==
    /\ contactNumber' = k
    /\ direction' = IF k >= 3 THEN "axial" ELSE "diagonal"
    /\ UNCHANGED <<routeVars, shape, selected, clicked, clockVars, animVars,
                   memoVars, fnVars>>

\* ContactNumberVizWithControls (sphere):
\* onChange={(e) => setContactNumber(parseInt(e.target.value))}.
SlideContactNumber(k) ==
    /\ contactNumber' = k
    /\ UNCHANGED <<routeVars, shape, direction, selected, clicked, clockVars,
                   animVars, memoVars, fnVars>>

\* TangentNormalScene: useFrame(({ clock }) => setTime(clock.getElapsedTime())).
FrameTangentNormal ==
    /\ "TangentNormalScene" \in DOMAIN time
    /\ time' = [time EXCEPT !["TangentNormalScene"] = Elapsed("TangentNormalViz")]
    /\ oldTime' = [oldTime EXCEPT !["TangentNormalViz"] = now]
    /\ UNCHANGED <<routeVars, uiVars, now, clockStart, animVars, memoVars,
                   fnVars>>

\* ContactNumberScene: useFrame(({ clock }) => setTime(clock.getElapsedTime())).
FrameContactNumber ==
    /\ "ContactNumberScene" \in DOMAIN time
    /\ time' = [time EXCEPT !["ContactNumberScene"] = Elapsed("SphereContact")]
    /\ oldTime' = [oldTime EXCEPT !["SphereContact"] = now]
    /\ UNCHANGED <<routeVars, uiVars, now, clockStart, animVars, memoVars,
                   fnVars>>

\* CylinderContactScene: groupRef.current.rotation.y = clock.getElapsedTime() * 0.1.
FrameCylinderContact ==
    /\ rotation' = [rotation EXCEPT !["CylinderContactScene"].y =
                      CylinderRotationY(Elapsed("CylinderContact"))]
    /\ oldTime' = [oldTime EXCEPT !["CylinderContact"] = now]
    /\ UNCHANGED <<routeVars, uiVars, now, clockStart, time, memoVars, fnVars>>

\* The shape Chapter1Viz shows: ref.current.rotation.x/y += delta * rate.
FrameManifold ==
    /\ rotation' = [rotation EXCEPT !["manifold"] =
                      RotateManifold(@, selected, Delta("Chapter1Viz"))]
    /\ oldTime' = [oldTime EXCEPT !["Chapter1Viz"] = now]
    /\ UNCHANGED <<routeVars, uiVars, now, clockStart, time, memoVars, fnVars>>

\* The three selector buttons of a widget: the one for the current value is
\* drawn highlighted (border-cyan-400 / bg-cyan-600).
ShapeHighlighted(s) == shape = s
DirectionHighlighted(d) == direction = d
ManifoldHighlighted(m) == selected = m

InitUi ==
    /\ RouteInit /\ UiInit /\ MemoInit /\ FnInit
    /\ now = 0
    /\ clockStart = [c \in UiCanvases |-> 0]
    /\ oldTime = [c \in UiCanvases |-> 0]
    /\ time = [s \in {"TangentNormalScene", "ContactNumberScene"} |-> 0]
    /\ rotation = [m \in {"CylinderContactScene", "manifold"} |-> NoRotation]

NextUi ==
    \/ Tick
    \/ \E s \in ShapeTypes : ClickShape(s)
    \/ \E d \in DirectionModes : ClickDirection(d)
    \/ \E m \in ManifoldTypes : ClickManifold(m)
    \/ \E k \in SliderValues : SlideContactNumber(k)
    \/ FrameTangentNormal
    \/ FrameContactNumber
    \/ FrameCylinderContact
    \/ FrameManifold

Spec == InitUi /\ [][NextUi]_vars

\* C2: the selection of a widget changes only in a step that is a click on
\* one of that widget's own selector buttons: no frame callback, no click in
\* another widget and no slider change alters shape, direction or selected.
C2_SelectionOnlyByOwnClick ==
    [][ /\ shape' # shape => \E s \in ShapeTypes : ClickShape(s)
        /\ direction' # direction => \E d \in DirectionModes : ClickDirection(d)
        /\ selected' # selected => \E m \in ManifoldTypes : ClickManifold(m) ]_vars

\* Frames have run in every canvas and the slider has moved, after each
\* selector was clicked, and the three selections are still the clicked ones.
C2_Witness ==
    /\ shape = "torus" /\ direction = "diagonal" /\ selected = "klein"
    /\ contactNumber = 2
    /\ time["TangentNormalScene"] = MaxNow
    /\ time["ContactNumberScene"] = MaxNow
    /\ rotation["CylinderContactScene"].y > 0
    /\ rotation["manifold"].y > 0

\* C3: the direction starts at 'axial' and the shape at 'sphere'; once a
\* button was clicked the selection is the value of the button clicked last,
\* whatever it was before; the selection is always one of the three values of
\* its type, and exactly one button is highlighted, the one of the selection.
C3_SelectionIsLastClicked ==
    /\ direction \in DirectionModes
    /\ shape \in ShapeTypes
    /\ clicked["direction"] = "none" => direction = "axial"
    /\ clicked["direction"] # "none" => direction = clicked["direction"]
    /\ clicked["shape"] = "none" => shape = "sphere"
    /\ clicked["shape"] # "none" => shape = clicked["shape"]
    /\ {d \in DirectionModes : DirectionHighlighted(d)} = {direction}
    /\ {s \in ShapeTypes : ShapeHighlighted(s)} = {shape}

C3_Witness ==
    /\ clicked["direction"] = "circumferential" /\ direction = "circumferential"
    /\ clicked["shape"] = "cylinder" /\ shape = "cylinder"
    /\ DirectionHighlighted("circumferential") /\ ~DirectionHighlighted("axial")

-----------------------------------------------------------------------------
(* The clock-driven scenes: mount, frames, unmount.                        *)

ClockScenes == {"TangentNormalScene", "IsotropicScene", "TorsionScene",
                "NormalSectionScene", "ContactNumberScene"}

\* Each scene is the only child of the Canvas of its Viz component.
CanvasOf(s) ==
    CASE s = "TangentNormalScene" -> "TangentNormalViz"
      [] s = "IsotropicScene"     -> "IsotropicViz"
      [] s = "TorsionScene"       -> "TorsionViz"
      [] s = "NormalSectionScene" -> "NormalSectionViz"
      [] s = "ContactNumberScene" -> "SphereContact"

\* The time is a variable of the module, shared by every mounted scene.
FrameIsotropicShared ==
    /\ "IsotropicScene" \in DOMAIN time
    /\ time' = [s \in DOMAIN time |-> Elapsed("IsotropicViz")]
    /\ oldTime' = [oldTime EXCEPT !["IsotropicViz"] = now]
    /\ UNCHANGED <<routeVars, uiVars, now, clockStart, animVars, memoVars,
                   fnVars>>

\* IsotropicScene: useFrame(({ clock }) => setTime(clock.getElapsedTime())).
FrameIsotropic ==
    /\ "IsotropicScene" \in DOMAIN time
    /\ time' = [time EXCEPT !["IsotropicScene"] = Elapsed("IsotropicViz")]
    /\ oldTime' = [oldTime EXCEPT !["IsotropicViz"] = now]
    /\ UNCHANGED <<routeVars, uiVars, now, clockStart, animVars, memoVars,
                   fnVars>>

\* TorsionScene: useFrame(({ clock }) => setTime(clock.getElapsedTime())).
FrameTorsion ==
    /\ "TorsionScene" \in DOMAIN time
    /\ time' = [time EXCEPT !["TorsionScene"] = Elapsed("TorsionViz")]
    /\ oldTime' = [oldTime EXCEPT !["TorsionViz"] = now]
    /\ UNCHANGED <<routeVars, uiVars, now, clockStart, animVars, memoVars,
                   fnVars>>

\* NormalSectionScene: useFrame(({ clock }) => setTime(clock.getElapsedTime())).
FrameNormalSection ==
    /\ "NormalSectionScene" \in DOMAIN time
    /\ time' = [time EXCEPT !["NormalSectionScene"] = Elapsed("NormalSectionViz")]
    /\ oldTime' = [oldTime EXCEPT !["NormalSectionViz"] = now]
    /\ UNCHANGED <<routeVars, uiVars, now, clockStart, animVars, memoVars,
                   fnVars>>

\* The frame callback of scene s.
FrameOf(s) ==
    CASE s = "TangentNormalScene" -> FrameTangentNormal
      [] s = "IsotropicScene"     -> FrameIsotropic
      [] s = "TorsionScene"       -> FrameTorsion
      [] s = "NormalSectionScene" -> FrameNormalSection
      [] s = "ContactNumberScene" -> FrameContactNumber

\* A function with key k set to v, k added to its domain if need be.
Put(f, k, v) == [x \in DOMAIN f \cup {k} |-> IF x = k THEN v ELSE f[x]]

\* A function without key k.
Drop(f, k) == [x \in DOMAIN f \ {k} |-> f[x]]

\* The Viz of scene s mounts: its Canvas starts a clock, useState(0) makes
\* the scene's time.
MountScene(s) ==
    /\ s \notin DOMAIN time
    /\ time' = Put(time, s, 0)
    /\ clockStart' = Put(clockStart, CanvasOf(s), now)
    /\ oldTime' = Put(oldTime, CanvasOf(s), now)
    /\ UNCHANGED <<routeVars, uiVars, now, animVars, memoVars, fnVars>>

\* The Viz of scene s unmounts: its state and its frame callback are gone.
UnmountScene(s) ==
    /\ s \in DOMAIN time
    /\ time' = Drop(time, s)
    /\ clockStart' = Drop(clockStart, CanvasOf(s))
    /\ oldTime' = Drop(oldTime, CanvasOf(s))
    /\ UNCHANGED <<routeVars, uiVars, now, animVars, memoVars, fnVars>>

InitClock ==
    RouteInit /\ UiInit /\ ClockInit /\ AnimInit /\ MemoInit /\ FnInit

NextClock ==
    \/ Tick
    \/ \E s \in ClockScenes : MountScene(s)
    \/ \E s \in ClockScenes : UnmountScene(s)
    \/ FrameTangentNormal
    \/ FrameIsotropic
    \/ FrameTorsion
    \/ FrameNormalSection
    \/ FrameContactNumber

SpecClock == InitClock /\ [][NextClock]_vars

\* C4: a scene's time is 0 when the scene mounts; while the scene stays
\* mounted its time never decreases, and a step that changes it is the
\* scene's own frame callback, which sets it to the elapsed time of the
\* clock of the scene's canvas.
C4_TimeOwnedByFrameCallback ==
    [][ \A s \in ClockScenes :
          /\ (s \notin DOMAIN time /\ s \in DOMAIN time') => time'[s] = 0
          /\ (s \in DOMAIN time /\ s \in DOMAIN time') =>
                /\ time'[s] >= time[s]
                /\ time'[s] # time[s] =>
                      /\ FrameOf(s)
                      /\ time'[s] = now - clockStart[CanvasOf(s)] ]_vars

\* One scene has run frames up to the last tick while another one, mounted
\* later, has run a frame of its own clock.
C4_Witness ==
    /\ DOMAIN time = ClockScenes
    /\ time["TangentNormalScene"] = MaxNow
    /\ clockStart["TorsionViz"] = 1
    /\ time["TorsionScene"] = MaxNow - 1
    /\ time["IsotropicScene"] = 1
    /\ time["NormalSectionScene"] = 0

-----------------------------------------------------------------------------
(* Two runs of the same pages over the same wall-clock time, each with the *)
(* frame schedule of its own display.                                      *)

Runs == {"A", "B"}
RunCanvases == {"Home", "Chapter1Viz", "CylinderContact"}

\* Home's RotatingSphere: ref.current.rotation.y += 0.005.
HomeSphereStep(rot) == [x |-> rot.x, y |-> rot.y + 50]

\* Home's RotatingTorus: rotation.x += 0.005; rotation.y += 0.003.
HomeTorusStep(rot) == [x |-> rot.x + 50, y |-> rot.y + 30]

\* The meshes and groups the frame callbacks of canvas c rotate.
MeshesOf(c) ==
    CASE c = "Home"            -> {"HomeSphere", "HomeTorus"}
      [] c = "Chapter1Viz"     -> {"manifold"}
      [] c = "CylinderContact" -> {"CylinderContactScene"}

RunMeshes == UNION {MeshesOf(c) : c \in RunCanvases}

TickRuns ==
    /\ now < MaxElapsed
    /\ now' = now + 1
    /\ UNCHANGED <<routeVars, uiVars, clockStart, oldTime, time, animVars,
                   memoVars, fnVars>>

\* Run r renders a frame of canvas c: the render loop takes the clock's
\* delta and runs the canvas's useFrame callbacks.
FrameRun(r, c) ==
    /\ now > oldTime[r][c]
    /\ LET delta == now - oldTime[r][c]
           elapsed == now - clockStart[r][c]
           rot == rotation[r]
       IN  rotation' = [rotation EXCEPT ![r] =
             CASE c = "Home" ->
                    [rot EXCEPT !["HomeSphere"] = HomeSphereStep(@),
                                !["HomeTorus"] = HomeTorusStep(@)]
               [] c = "Chapter1Viz" ->
                    [rot EXCEPT !["manifold"] = RotateManifold(@, selected, delta)]
               [] c = "CylinderContact" ->
                    [rot EXCEPT !["CylinderContactScene"].y =
                                    CylinderRotationY(elapsed)]]
    /\ oldTime' = [oldTime EXCEPT ![r][c] = now]
    /\ UNCHANGED <<routeVars, uiVars, now, clockStart, time, memoVars, fnVars>>

InitRuns ==
    /\ RouteInit /\ MemoInit /\ FnInit
    /\ shape = "sphere" /\ direction = "axial" /\ contactNumber = 3
    /\ selected \in ManifoldTypes
    /\ clicked = [w \in {"shape", "direction", "selected"} |-> "none"]
    /\ now = 0
    /\ clockStart = [r \in Runs |-> [c \in RunCanvases |-> 0]]
    /\ oldTime = [r \in Runs |-> [c \in RunCanvases |-> 0]]
    /\ time = << >>
    /\ rotation = [r \in Runs |-> [m \in RunMeshes |-> NoRotation]]

NextRuns ==
    \/ TickRuns
    \/ \E r \in Runs, c \in RunCanvases : FrameRun(r, c)

SpecRuns == InitRuns /\ [][NextRuns]_vars

\* C5: the displayed animation state is determined by the elapsed time alone:
\* whenever the two runs have rendered their latest frame of a canvas at the
\* same elapsed time, every mesh of that canvas shows the same rotation in
\* both, however many frames each run has rendered.
C5_SameElapsedSameState ==
    \A c \in RunCanvases :
        oldTime["A"][c] = oldTime["B"][c] =>
            \A m \in MeshesOf(c) : rotation["A"][m] = rotation["B"][m]

\* The same statement without the Home page's canvas.
C5_SameElapsedSameStateOffHome ==
    \A c \in RunCanvases \ {"Home"} :
        oldTime["A"][c] = oldTime["B"][c] =>
            \A m \in MeshesOf(c) : rotation["A"][m] = rotation["B"][m]

-----------------------------------------------------------------------------
(* The memoised surfaces: useMemo cells, renders and frame callbacks.      *)

\* The components that build a parametric surface in a useMemo.
Surfaces == {"RotatingKleinBottle", "MobiusStrip", "NonIsotropicScene",
             "SecondFundamentalFormScene"}

\* RotatingKleinBottle: const u = (i / uSegments) * Math.PI * 2.
KleinU(i) == RDiv(i * TwoPi, 80)

\* A test that sends the row at u = PI to the bottom part.
KleinPartInclusive(i) == IF KleinU(i) <= Pi THEN "bottom" ELSE "top"

\* RotatingKleinBottle: if (u < Math.PI) { bottom part } else { top part }.
KleinPart(i) == IF KleinU(i) < Pi THEN "bottom" ELSE "top"

\* The bottom part, 0 to PI:
\* x = 6 cosU (1 + sinU) + 4 (1 - cosU / 2) cosU cosV,
\* y = 16 sinU + 4 (1 - cosU / 2) sinU cosV, z = 4 (1 - cosU / 2) sinV.
KleinBottom(i, j) ==
    LET u == KleinU(i)
        v == RDiv(j * TwoPi, 40)
        cosU == Cos(u)
        sinU == Sin(u)
        cosV == Cos(v)
        sinV == Sin(v)
        tube == 4 * (SCALE - RDiv(cosU, 2))
    IN  Vector3(Mul(6 * cosU, SCALE + sinU) + Mul(Mul(tube, cosU), cosV),
                16 * sinU + Mul(Mul(tube, sinU), cosV),
                Mul(tube, sinV))

\* The top part, PI to 2 PI, the handle that goes through:
\* x = 6 cosU (1 + sinU) - 4 (1 - cosU / 2) cosV, y = 16 sinU,
\* z = 4 (1 - cosU / 2) sinV.
KleinTop(i, j) ==
    LET u == KleinU(i)
        v == RDiv(j * TwoPi, 40)
        cosU == Cos(u)
        sinU == Sin(u)
        cosV == Cos(v)
        sinV == Sin(v)
        tube == 4 * (SCALE - RDiv(cosU, 2))
    IN  Vector3(Mul(6 * cosU, SCALE + sinU) - Mul(tube, cosV),
                16 * sinU,
                Mul(tube, sinV))

\* RotatingKleinBottle: vertex (i, j) of the 81 x 41 grid.
KleinPoint(i, j) ==
    LET p == IF KleinPart(i) = "bottom" THEN KleinBottom(i, j)
             ELSE KleinTop(i, j)
    IN  Vector3(Mul(p.x, Lit(5, 100)), Mul(p.y, Lit(5, 100)),
                Mul(p.z, Lit(5, 100)))

\* MobiusStrip: vertex (i, j) of the 65 x 17 grid; R = 1, w = 0.4.
MobiusPoint(i, j) ==
    LET u == RDiv(i * TwoPi, 64)
        st == RDiv(j * 2 * SCALE, 16) - SCALE
        sw == Mul(st, Lit(4, 10))
        ring == SCALE + Mul(sw, Cos(RDiv(u, 2)))
    IN  Vector3(Mul(ring, Cos(u)), Mul(ring, Sin(u)), Mul(sw, Sin(RDiv(u, 2))))

\* NonIsotropicScene: point j of row i of the ellipsoid, radii 0.5, 1.0, 0.8.
EllipsoidPoint(i, j) ==
    LET phi == RDiv(i * Pi, 16)
        theta == RDiv(j * TwoPi, 32)
    IN  Vector3(Mul(Mul(Lit(5, 10), Sin(phi)), Cos(theta)),
                Mul(Mul(SCALE, Sin(phi)), Sin(theta)),
                Mul(Lit(8, 10), Cos(phi)))

\* SecondFundamentalFormScene: point (i, j) of the paraboloid of curvature c,
\* z = -curvature * (u * u + v * v) * 0.3.
ParaboloidPoint(i, j, c) ==
    LET u == (RDiv(i * SCALE, 20) - Lit(5, 10)) * 2
        v == (RDiv(j * SCALE, 20) - Lit(5, 10)) * 2
    IN  Vector3(u, v, Mul(Mul(-c, Mul(u, u) + Mul(v, v)), Lit(3, 10)))

\* What the useMemo factory of component c returns: the size of its buffers
\* (the loops' trip counts) and its first point.
BuildSurface(c) ==
    CASE c = "RotatingKleinBottle" ->
           [vertices |-> (80 + 1) * (40 + 1), indices |-> 80 * 40 * 6,
            first |-> KleinPoint(0, 0)]
      [] c = "MobiusStrip" ->
           [vertices |-> (64 + 1) * (16 + 1), indices |-> 64 * 16 * 6,
            first |-> MobiusPoint(0, 0)]
      [] c = "NonIsotropicScene" ->
           [vertices |-> (16 + 1) * (32 + 1), indices |-> 0,
            first |-> EllipsoidPoint(0, 0)]
      [] c = "SecondFundamentalFormScene" ->
           [vertices |-> (20 + 1) * (20 + 1), indices |-> 0,
            first |-> ParaboloidPoint(0, 0, curvature')]

\* The dependency array component c hands to useMemo in the render that
\* follows the step.
DepsOf(c) ==
    IF c = "SecondFundamentalFormScene" THEN <<curvature'>> ELSE <<>>

\* A useMemo without its dependency array: the factory runs in every render.
UseMemoNoDeps(cell, deps, value) ==
    [deps |-> deps, value |-> value, builds |-> cell.builds + 1,
     renders |-> cell.renders + 1]

\* One more render of a component: useMemo keeps its value when the
\* dependencies are the ones of the last render, and rebuilds it otherwise.
UseMemo(cell, deps, value) ==
    IF cell.deps = deps
    THEN [cell EXCEPT !.renders = @ + 1]
    ELSE [deps |-> deps, value |-> value, builds |-> cell.builds + 1,
          renders |-> cell.renders + 1]

\* The first render of component c.
FirstRender(c) ==
    [deps |-> DepsOf(c), value |-> BuildSurface(c), builds |-> 1, renders |-> 1]

\* Component c renders again.
Render(c) == memo' = [memo EXCEPT ![c] = UseMemo(@, DepsOf(c), BuildSurface(c))]

\* The parent of c renders again (a language switch, a selection), and c
\* with it; c's own state is what it was.
Rerender(c) ==
    /\ memo[c].renders < MaxRenders
    /\ UNCHANGED curvature
    /\ Render(c)
    /\ UNCHANGED <<routeVars, uiVars, clockVars, animVars, fnVars>>

\* RotatingKleinBottle: rotation.x += delta * 0.15; rotation.y += delta * 0.25.
\* The mesh is reached through the ref: no state changes, nothing renders.
FrameKleinBottle ==
    /\ rotation' = [rotation EXCEPT !["RotatingKleinBottle"] =
                      RotateManifold(@, "klein", Delta("RotatingKleinBottle"))]
    /\ oldTime' = [oldTime EXCEPT !["RotatingKleinBottle"] = now]
    /\ UNCHANGED <<routeVars, uiVars, now, clockStart, time, memoVars, fnVars>>

\* MobiusStrip: rotation.y += delta * 0.3.
FrameMobiusStrip ==
    /\ rotation' = [rotation EXCEPT !["MobiusStrip"] =
                      RotateManifold(@, "mobius", Delta("MobiusStrip"))]
    /\ oldTime' = [oldTime EXCEPT !["MobiusStrip"] = now]
    /\ UNCHANGED <<routeVars, uiVars, now, clockStart, time, memoVars, fnVars>>

\* NonIsotropicScene: setTime(clock.getElapsedTime()); the scene renders
\* again when the value is a new one.
FrameNonIsotropic ==
    /\ "NonIsotropicScene" \in DOMAIN time
    /\ time' = [time EXCEPT !["NonIsotropicScene"] = Elapsed("NonIsotropicScene")]
    /\ oldTime' = [oldTime EXCEPT !["NonIsotropicScene"] = now]
    /\ UNCHANGED curvature
    /\ IF time' # time THEN Render("NonIsotropicScene") ELSE UNCHANGED memo
    /\ UNCHANGED <<routeVars, uiVars, now, clockStart, animVars, fnVars>>

\* SecondFundamentalFormScene:
\* setCurvature(1 + 0.5 * Math.sin(clock.getElapsedTime() * 0.5)).
CurvatureAt(elapsed) ==
    SCALE + Mul(Lit(5, 10), Sin(RDiv(elapsed * 5 * SCALE, 1000)))

FrameSecondFundamentalForm ==
    /\ curvature' = CurvatureAt(Elapsed("SecondFundamentalFormScene"))
    /\ oldTime' = [oldTime EXCEPT !["SecondFundamentalFormScene"] = now]
    /\ IF curvature' # curvature
       THEN Render("SecondFundamentalFormScene")
       ELSE UNCHANGED memo
    /\ UNCHANGED <<routeVars, uiVars, now, clockStart, time, animVars, fnVars>>

\* The four components after their mount: useState(1), useState(0), new
\* meshes, and the first render's useMemo.
InitMemo ==
    /\ RouteInit /\ UiInit /\ FnInit
    /\ now = 0
    /\ clockStart = [c \in Surfaces |-> 0]
    /\ oldTime = [c \in Surfaces |-> 0]
    /\ time = [s \in {"NonIsotropicScene"} |-> 0]
    /\ rotation = [m \in {"RotatingKleinBottle", "MobiusStrip"} |-> NoRotation]
    /\ curvature = SCALE
    /\ memo = [c \in Surfaces |->
                 [deps |-> IF c = "SecondFundamentalFormScene"
                           THEN <<SCALE>> ELSE <<>>,
                  value |-> [vertices |-> 0, indices |-> 0,
                             first |-> Vector3(0, 0, 0)],
                  builds |-> 0, renders |-> 0]]

\* The mount of component c: its first render.
MountRender(c) ==
    /\ memo[c].renders = 0
    /\ UNCHANGED curvature
    /\ memo' = [memo EXCEPT ![c] = FirstRender(c)]
    /\ UNCHANGED <<routeVars, uiVars, clockVars, animVars, fnVars>>

Mounted(c) == memo[c].renders > 0

NextMemo ==
    \/ Tick
    \/ \E c \in Surfaces : MountRender(c)
    \/ \E c \in Surfaces : Mounted(c) /\ Rerender(c)
    \/ Mounted("RotatingKleinBottle") /\ FrameKleinBottle
    \/ Mounted("MobiusStrip") /\ FrameMobiusStrip
    \/ Mounted("NonIsotropicScene") /\ FrameNonIsotropic
    \/ Mounted("SecondFundamentalFormScene") /\ FrameSecondFundamentalForm

SpecMemo == InitMemo /\ [][NextMemo]_vars

\* The surfaces whose useMemo has the empty dependency array.
BuiltOnce == {"RotatingKleinBottle", "MobiusStrip", "NonIsotropicScene"}

\* C6 as stated: every surface's buffers are built once, at mount, and never
\* rebuilt afterwards: a mounted component has run its factory exactly once.
C6_BuiltOnceNeverRebuilt ==
    \A c \in Surfaces : Mounted(c) => memo[c].builds = 1

\* C6, amended: the Klein bottle, the Moebius strip and the ellipsoid are
\* built once at mount and never rebuilt, whatever renders and frames follow,
\* and every surface keeps the size it was built with (3321 vertices and
\* 19200 indices, 1105 and 6144, 561 points, 441 points); the paraboloid of
\* SecondFundamentalFormScene is the buffer built from the current curvature:
\* it is rebuilt whenever the frame callback changes the curvature.
C6_BuiltOnceExceptParaboloid ==
    \A c \in Surfaces : Mounted(c) =>
        /\ c \in BuiltOnce => memo[c].builds = 1 /\ memo[c].deps = << >>
        /\ c = "RotatingKleinBottle" =>
             memo[c].value.vertices = 3321 /\ memo[c].value.indices = 19200
        /\ c = "MobiusStrip" =>
             memo[c].value.vertices = 1105 /\ memo[c].value.indices = 6144
        /\ c = "NonIsotropicScene" => memo[c].value.vertices = 561
        /\ c = "SecondFundamentalFormScene" =>
             /\ memo[c].value.vertices = 441
             /\ memo[c].deps = <<curvature>>
             /\ memo[c].value.first = ParaboloidPoint(0, 0, curvature)
             /\ memo[c].builds <= memo[c].renders

\* Every surface has rendered again after its mount, the rotating ones have
\* turned, and the paraboloid has been rebuilt while the others have not.
C6_Witness ==
    /\ \A c \in Surfaces : memo[c].renders >= 2
    /\ \A c \in BuiltOnce : memo[c].builds = 1
    /\ memo["SecondFundamentalFormScene"].builds >= 2
    /\ curvature # SCALE
    /\ time["NonIsotropicScene"] > 0
    /\ rotation["RotatingKleinBottle"].y > 0
    /\ rotation["MobiusStrip"].y > 0

-----------------------------------------------------------------------------
(* The tangent frame TangentPlane and TangentVectors build from a normal.  *)

\* The normals handed to the two components: every non-zero vector whose
\* components are multiples of 0.5 up to NMax / 2; the axes are among them.
Normals ==
    {Vector3(i * Lit(1, 2), j * Lit(1, 2), k * Lit(1, 2)) :
        i \in -NMax..NMax, j \in -NMax..NMax, k \in -NMax..NMax}
      \ {Vector3(0, 0, 0)}

\* The points the frame is drawn at.
Points == {Vector3(0, 0, 0), Vector3(SCALE, Lit(1, 2), -Lit(1, 4))}

\* The reference axis is always the x-axis: the switch is missing.
ReferenceAxisAlwaysX(n) == Vector3(SCALE, 0, 0)

\* let u = new Vector3(1, 0, 0);
\* if (Math.abs(n.dot(u)) > 0.9) u = new Vector3(0, 1, 0);
ReferenceAxis(n) ==
    IF Abs(Dot(n, Vector3(SCALE, 0, 0))) > Lit(9, 10)
    THEN Vector3(0, SCALE, 0)
    ELSE Vector3(SCALE, 0, 0)

\* u.sub(n.clone().multiplyScalar(n.dot(u))): the reference axis with its
\* component along n taken out, before it is normalized.
ProjectOut(n, axis) == Sub(axis, MultiplyScalar(n, Dot(n, axis)))

\* TangentPlane's useMemo: n, u, v and the centre p of the drawn square.
TangentPlane(point, normal) ==
    LET n == Normalize(normal)
        axis == ReferenceAxis(n)
        projected == ProjectOut(n, axis)
        u == Normalize(projected)
        v == CrossVectors(n, u)
        p == Add(point, MultiplyScalar(n, Lit(1, 100)))
    IN  [n |-> n, axis |-> axis, projected |-> projected, u |-> u, v |-> v,
         p |-> p]

\* The tangent vectors are the reference axis and its cross product with n:
\* the projection is missing.
TangentVectorsNoProjection(point, normal) ==
    LET n == Normalize(normal)
        axis == ReferenceAxis(n)
        u == Normalize(axis)
    IN  [n |-> n, axis |-> axis, projected |-> axis, u |-> u,
         v |-> CrossVectors(n, u),
         p |-> Add(point, MultiplyScalar(Normalize(normal), Lit(1, 100)))]

\* TangentVectors' useMemo: n, u, v, and the start of the two arrows,
\* point.clone().add(normal.clone().normalize().multiplyScalar(0.01)).
TangentVectors(point, normal) ==
    LET n == Normalize(normal)
        axis == ReferenceAxis(n)
        projected == ProjectOut(n, axis)
        u == Normalize(projected)
        v == CrossVectors(n, u)
        start == Add(point, MultiplyScalar(Normalize(normal), Lit(1, 100)))
    IN  [n |-> n, axis |-> axis, projected |-> projected, u |-> u, v |-> v,
         p |-> start]

\* A frame that has not been computed.
NoFrame ==
    LET zero == Vector3(0, 0, 0)
    IN  [n |-> zero, axis |-> zero, projected |-> zero, u |-> zero,
         v |-> zero, p |-> zero]

\* TangentPlane renders with the props of the scene.
RenderTangentPlane ==
    /\ ~output.planeDone
    /\ output' = [output EXCEPT !.planeDone = TRUE,
                                !.plane = TangentPlane(input.point, input.normal)]
    /\ UNCHANGED <<routeVars, uiVars, clockVars, animVars, memoVars, input>>

\* TangentVectors renders with the props of the scene.
RenderTangentVectors ==
    /\ ~output.vectorsDone
    /\ output' = [output EXCEPT !.vectorsDone = TRUE,
                                !.vectors = TangentVectors(input.point, input.normal)]
    /\ UNCHANGED <<routeVars, uiVars, clockVars, animVars, memoVars, input>>

\* The scene hands a point and a normal to the two components.
InitFrame ==
    /\ RouteInit /\ UiInit /\ ClockInit /\ AnimInit /\ MemoInit
    /\ input \in [point : Points, normal : Normals]
    /\ output = [planeDone |-> FALSE, plane |-> NoFrame,
                 vectorsDone |-> FALSE, vectors |-> NoFrame]

NextFrame == RenderTangentPlane \/ RenderTangentVectors

SpecFrame == InitFrame /\ [][NextFrame]_vars

\* Two vectors are orthogonal, within the tolerance.
Orthogonal(a, b) == Abs(Dot(a, b)) <= Eps

\* A vector has length one, within the tolerance.
UnitLength(a) == Abs(Length(a) - SCALE) <= Eps

\* The frames that have been computed.
FramesDone ==
    (IF output.planeDone THEN {output.plane} ELSE {})
      \cup (IF output.vectorsDone THEN {output.vectors} ELSE {})

\* C7: for every non-zero normal, the u and v of TangentPlane and of
\* TangentVectors are unit vectors orthogonal to each other and to n, and
\* the two components compute the same n, u, v and the same base point, so
\* the arrows lie in the drawn plane.
C7_TangentFrameOrthogonal ==
    /\ \A f \in FramesDone :
         /\ UnitLength(f.n) /\ UnitLength(f.u) /\ UnitLength(f.v)
         /\ Orthogonal(f.u, f.v)
         /\ Orthogonal(f.u, f.n)
         /\ Orthogonal(f.v, f.n)
    /\ output.planeDone /\ output.vectorsDone =>
         /\ output.plane.u = output.vectors.u
         /\ output.plane.v = output.vectors.v
         /\ output.plane.p = output.vectors.p

\* Both components have built their frame for a normal off the axes, drawn
\* away from the origin.
C7_Witness ==
    /\ output.planeDone /\ output.vectorsDone
    /\ input.normal.x # 0 /\ input.normal.y # 0 /\ input.normal.z # 0
    /\ input.point # Vector3(0, 0, 0)
    /\ output.plane.u # output.plane.axis

\* C8: the reference axis is the x-axis unless |n.x| > 0.9 for the unit
\* normal n, and then the y-axis; the axis is not parallel to n, so the
\* projected vector and the normal have a non-zero length when they are
\* normalized; with the normal exactly +-x the frame starts from the y-axis
\* itself, with +-y from the x-axis itself.
C8_ReferenceAxisNotParallel ==
    \A f \in FramesDone :
        /\ f.axis = IF Abs(f.n.x) > Lit(9, 10)
                    THEN Vector3(0, SCALE, 0) ELSE Vector3(SCALE, 0, 0)
        /\ CrossVectors(f.n, f.axis) # Vector3(0, 0, 0)
        /\ Length(input.normal) > 0
        /\ Length(f.projected) > 0
        /\ input.normal.y = 0 /\ input.normal.z = 0 =>
             f.projected = Vector3(0, SCALE, 0)
        /\ input.normal.x = 0 /\ input.normal.z = 0 =>
             f.projected = Vector3(SCALE, 0, 0)

\* Both components have built their frame for the normal -x.
C8_Witness ==
    /\ output.planeDone /\ output.vectorsDone
    /\ input.normal.x < 0 /\ input.normal.y = 0 /\ input.normal.z = 0
    /\ output.plane.axis = Vector3(0, SCALE, 0)
    /\ output.vectors.u = Vector3(0, SCALE, 0)

-----------------------------------------------------------------------------
(* The point and the normal the scenes draw on the sphere, torus, cylinder. *)

\* The clock values handed to the scenes: 0 s to MaxTime / 10 s by 0.1 s.
Times == {k * Lit(1, 10) : k \in 0..MaxTime}

\* The third coordinate is taken from theta instead of phi.
SpherePointWrongAngle(t) ==
    LET theta == Mul(t, Lit(3, 10))
        phi == RDiv(Pi, 3) + Mul(Sin(Mul(t, Lit(2, 10))), Lit(3, 10))
    IN  Vector3(Mul(Sin(phi), Cos(theta)), Mul(Sin(phi), Sin(theta)), Cos(theta))

\* getSurfacePointAndNormal, 'sphere': theta = time * 0.3,
\* phi = PI / 3 + sin(time * 0.2) * 0.3, p = (sin phi cos theta,
\* sin phi sin theta, cos phi).
SpherePoint(t) ==
    LET theta == Mul(t, Lit(3, 10))
        phi == RDiv(Pi, 3) + Mul(Sin(Mul(t, Lit(2, 10))), Lit(3, 10))
    IN  Vector3(Mul(Sin(phi), Cos(theta)), Mul(Sin(phi), Sin(theta)), Cos(phi))

\* The sphere's normal taken as the cylinder's: radial about the y-axis.
SphereNormalRadial(p) == Normalize(Vector3(p.x, 0, p.z))

\* getSurfacePointAndNormal, 'sphere': normal: p.clone().normalize().
SphereNormal(p) == Normalize(p)

\* The torus normal taken as the sphere's: the normalized point.
TorusPointAndNormalAsSphere(R, r, t) ==
    LET u == Mul(t, Lit(25, 100))
        v == Mul(t, Lit(4, 10))
        ring == R + Mul(r, Cos(v))
        p == Vector3(Mul(ring, Cos(u)), Mul(ring, Sin(u)), Mul(r, Sin(v)))
    IN  [point |-> p, normal |-> Normalize(p)]

\* getSurfacePointAndNormal, 'torus', for the radii of its first line
\* (const R = 1, r = 0.4): u = time * 0.25, v = time * 0.4,
\* p = ((R + r cos v) cos u, (R + r cos v) sin u, r sin v),
\* n = (cos v cos u, cos v sin u, sin v).normalize().
TorusPointAndNormal(R, r, t) ==
    LET u == Mul(t, Lit(25, 100))
        v == Mul(t, Lit(4, 10))
        ring == R + Mul(r, Cos(v))
    IN  [point |-> Vector3(Mul(ring, Cos(u)), Mul(ring, Sin(u)),
                           Mul(r, Sin(v))),
         normal |-> Normalize(Vector3(Mul(Cos(v), Cos(u)),
                                      Mul(Cos(v), Sin(u)), Sin(v)))]

\* The cylinder normal keeps the point's height: the normalized point.
CylinderPointAndNormalWithHeight(t) ==
    LET theta == Mul(t, Lit(3, 10))
        y == Mul(Sin(Mul(t, Lit(2, 10))), Lit(8, 10))
        p == Vector3(Cos(theta), y, Sin(theta))
    IN  [point |-> p, normal |-> Normalize(p)]

\* getSurfacePointAndNormal, the cylinder of radius 1 about the y-axis:
\* theta = time * 0.3, y = sin(time * 0.2) * 0.8, p = (cos theta, y,
\* sin theta), n = (cos theta, 0, sin theta).normalize().
CylinderPointAndNormal(t) ==
    LET theta == Mul(t, Lit(3, 10))
        y == Mul(Sin(Mul(t, Lit(2, 10))), Lit(8, 10))
    IN  [point |-> Vector3(Cos(theta), y, Sin(theta)),
         normal |-> Normalize(Vector3(Cos(theta), 0, Sin(theta)))]

\* getSurfacePointAndNormal(shape, time).
GetSurfacePointAndNormal(s, t) ==
    IF s = "sphere"
    THEN LET p == SpherePoint(t)
         IN  [point |-> p, normal |-> SphereNormal(p)]
    ELSE IF s = "torus"
    THEN TorusPointAndNormal(SCALE, Lit(4, 10), t)
    ELSE CylinderPointAndNormal(t)

\* NormalSectionScene: the point at phi = PI / 4, theta = time * 0.3, the
\* tangent along the longitude and the normal point.clone().normalize().
NormalSection(t) ==
    LET phi == RDiv(Pi, 4)
        theta == Mul(t, Lit(3, 10))
        point == Vector3(Mul(Sin(phi), Cos(theta)), Mul(Sin(phi), Sin(theta)),
                         Cos(phi))
    IN  [point |-> point,
         tangent |-> Normalize(Vector3(-Sin(theta), Cos(theta), 0)),
         normal |-> Normalize(point)]

\* NormalVector: normal = position.clone().normalize(), and the arrow ends
\* at position.clone().add(normal.multiplyScalar(0.4)).
NormalVector(position) ==
    LET normal == Normalize(position)
    IN  [normal |-> normal,
         end |-> Add(position, MultiplyScalar(normal, Lit(4, 10)))]

\* TangentNormalScene calls getSurfacePointAndNormal(shape, time).
CallGetSurfacePointAndNormal ==
    /\ ~output.called
    /\ output' = [output EXCEPT !.called = TRUE,
                    !.result = GetSurfacePointAndNormal(input.shape, input.time)]
    /\ UNCHANGED <<routeVars, uiVars, clockVars, animVars, memoVars, input>>

\* NormalSectionScene renders at the same clock value, and NormalVector
\* with its point.
RenderNormalSection ==
    /\ ~output.rendered
    /\ output' = [output EXCEPT !.rendered = TRUE,
                    !.section = NormalSection(input.time),
                    !.arrow = NormalVector(NormalSection(input.time).point)]
    /\ UNCHANGED <<routeVars, uiVars, clockVars, animVars, memoVars, input>>

InitSurface ==
    LET zero == Vector3(0, 0, 0)
    IN  /\ RouteInit /\ UiInit /\ ClockInit /\ AnimInit /\ MemoInit
        /\ input \in [shape : ShapeTypes, time : Times]
        /\ output = [called |-> FALSE,
                     result |-> [point |-> zero, normal |-> zero],
                     rendered |-> FALSE,
                     section |-> [point |-> zero, tangent |-> zero,
                                  normal |-> zero],
                     arrow |-> [normal |-> zero, end |-> zero]]

NextSurface == CallGetSurfacePointAndNormal \/ RenderNormalSection

SpecSurface == InitSurface /\ [][NextSurface]_vars

\* C9: for every time value, the point getSurfacePointAndNormal('sphere',
\* time) returns is at distance one from the origin, within the tolerance.
C9_SpherePointUnitDistance ==
    output.called /\ input.shape = "sphere" => UnitLength(output.result.point)

\* The function has returned the sphere's point for a time past 10 s, off
\* the coordinate planes.
C9_Witness ==
    /\ output.called /\ input.shape = "sphere"
    /\ input.time > 10 * SCALE
    /\ output.result.point.x # 0
    /\ output.result.point.y # 0
    /\ output.result.point.z # 0

\* Two vectors agree in every coordinate, within the tolerance.
Near(a, b) ==
    /\ Abs(a.x - b.x) <= Eps
    /\ Abs(a.y - b.y) <= Eps
    /\ Abs(a.z - b.z) <= Eps

\* C10: for every time value, the normal getSurfacePointAndNormal('sphere',
\* time) returns is the normalized position vector of the returned point, a
\* unit vector that is the point itself within the tolerance; the same
\* holds for the normal of NormalSectionScene and of NormalVector, whose
\* arrow runs 0.4 along it.
C10_SphereNormalIsPosition ==
    /\ output.called /\ input.shape = "sphere" =>
         /\ output.result.normal = Normalize(output.result.point)
         /\ UnitLength(output.result.normal)
         /\ Near(output.result.normal, output.result.point)
    /\ output.rendered =>
         /\ output.section.normal = Normalize(output.section.point)
         /\ UnitLength(output.section.normal)
         /\ Near(output.section.normal, output.section.point)
         /\ output.arrow.normal = output.section.normal
         /\ output.arrow.end =
              Add(output.section.point,
                  MultiplyScalar(Normalize(output.section.point), Lit(4, 10)))

\* The sphere's normal has been returned and NormalSectionScene has rendered
\* at a time past 10 s.
C10_Witness ==
    /\ output.called /\ output.rendered /\ input.shape = "sphere"
    /\ input.time > 10 * SCALE
    /\ output.result.normal.y # 0
    /\ output.arrow.end # output.section.point

\* C12: for every time value, the cylinder normal has no component along
\* the axis y, it is a unit vector, and its x and z are those of the
\* returned point, within the tolerance, whatever the point's height.
C12_CylinderNormalRadial ==
    output.called /\ input.shape = "cylinder" =>
        /\ output.result.normal.y = 0
        /\ UnitLength(output.result.normal)
        /\ Abs(output.result.normal.x - output.result.point.x) <= Eps
        /\ Abs(output.result.normal.z - output.result.point.z) <= Eps

\* The cylinder's point has been returned more than half way up, off the
\* coordinate planes.
C12_Witness ==
    /\ output.called /\ input.shape = "cylinder"
    /\ output.result.point.y > Lit(5, 10)
    /\ output.result.normal.x # 0
    /\ output.result.normal.z # 0

-----------------------------------------------------------------------------
(* The torus branch evaluated twice, with two choices of its radii.        *)

\* The major and tube radii the first line of the branch may set; the
\* code's R = 1 and r = 0.4 are among them.
MajorRadii == {SCALE, 2 * SCALE}
TubeRadii == {Lit(4, 10), Lit(2, 10)}

\* Evaluation e of the branch, with its own radii, at the common time.
EvaluateTorus(e) ==
    /\ ~output[e].done
    /\ output' = [output EXCEPT ![e] =
                    [done |-> TRUE,
                     result |-> TorusPointAndNormal(input[e].R, input[e].r,
                                                    input.time)]]
    /\ UNCHANGED <<routeVars, uiVars, clockVars, animVars, memoVars, input>>

InitTorus ==
    LET zero == Vector3(0, 0, 0)
        radii == [R : MajorRadii, r : TubeRadii]
    IN  /\ RouteInit /\ UiInit /\ ClockInit /\ AnimInit /\ MemoInit
        /\ input \in [time : Times, A : radii, B : radii]
        /\ output = [e \in Runs |->
                       [done |-> FALSE,
                        result |-> [point |-> zero, normal |-> zero]]]

NextTorus == \E e \in Runs : EvaluateTorus(e)

SpecTorus == InitTorus /\ [][NextTorus]_vars

\* C11: two evaluations of the torus branch at the same time, hence the same
\* u and v, return the same normal whatever their radii R and r, a unit
\* vector; the returned points differ when the evaluations differ in R
\* alone or in r alone.
C11_TorusNormalIndependentOfRadii ==
    output["A"].done /\ output["B"].done =>
        /\ output["A"].result.normal = output["B"].result.normal
        /\ UnitLength(output["A"].result.normal)
        /\ (input.A.R # input.B.R /\ input.A.r = input.B.r) =>
             output["A"].result.point # output["B"].result.point
        /\ (input.A.R = input.B.R /\ input.A.r # input.B.r) =>
             output["A"].result.point # output["B"].result.point

\* The code's radii against a wider ring and a thinner tube, past 10 s:
\* equal normals, different points.
C11_Witness ==
    /\ output["A"].done /\ output["B"].done
    /\ input.time > 10 * SCALE
    /\ input.A = [R |-> SCALE, r |-> Lit(4, 10)]
    /\ input.B = [R |-> 2 * SCALE, r |-> Lit(2, 10)]
    /\ output["A"].result.normal = output["B"].result.normal
    /\ output["A"].result.point # output["B"].result.point

-----------------------------------------------------------------------------
(* The vertex and index loops of the Klein bottle and Moebius strip meshes. *)

\* The meshes built over a grid, and their uSegments x vSegments
\* (segments x widthSegments for the strip).
GridMeshes == {"RotatingKleinBottle", "KleinBottleFigure8", "MobiusStrip"}

GridOf(m) ==
    IF m = "MobiusStrip" THEN [U |-> 64, V |-> 16] ELSE [U |-> 80, V |-> 40]

\* The rows of the index buffer are taken V apart instead of V + 1.
QuadIndicesShortRow(i, j, V) ==
    LET a == i * V + j
        b == a + 1
        c == (i + 1) * V + j
        d == c + 1
    IN  <<a, b, c, b, d, c>>

\* The second triangle pushed as (b, c, d), the edge b-c in the direction
\* of the first.
QuadIndicesSameDirection(i, j, V) ==
    LET a == i * (V + 1) + j
        b == a + 1
        c == (i + 1) * (V + 1) + j
        d == c + 1
    IN  <<a, b, c, b, c, d>>

\* a = i * (vSegments + 1) + j; b = a + 1; c = (i + 1) * (vSegments + 1) + j;
\* d = c + 1; indices.push(a, b, c); indices.push(b, d, c).
QuadIndices(i, j, V) ==
    LET a == i * (V + 1) + j
        b == a + 1
        c == (i + 1) * (V + 1) + j
        d == c + 1
    IN  <<a, b, c, b, d, c>>

SeqMin(q) == CHOOSE x \in {q[k] : k \in DOMAIN q} :
                 \A y \in {q[k] : k \in DOMAIN q} : x <= y
SeqMax(q) == CHOOSE x \in {q[k] : k \in DOMAIN q} :
                 \A y \in {q[k] : k \in DOMAIN q} : x >= y

\* One pass of the inner vertex loop, for (i = 0; i <= U) for (j = 0; j <= V):
\* vertices.push(x, y, z).  After the last vertex the index loops start.
PushVertex ==
    LET g == GridOf(input.mesh)
    IN  /\ output.phase = "vertices"
        /\ output' =
             [output EXCEPT
                !.vertices = @ + 1,
                !.pushed = [i |-> output.i, j |-> output.j,
                            part |-> IF input.mesh = "RotatingKleinBottle"
                                     THEN KleinPart(output.i) ELSE "all"],
                !.j = IF output.j < g.V THEN @ + 1 ELSE 0,
                !.i = IF output.j < g.V THEN @
                      ELSE IF output.i < g.U THEN @ + 1 ELSE 0,
                !.phase = IF output.j = g.V /\ output.i = g.U
                          THEN "indices" ELSE @]
        /\ UNCHANGED <<routeVars, uiVars, clockVars, animVars, memoVars, input>>

\* One pass of the inner index loop, for (i = 0; i < U) for (j = 0; j < V):
\* the two triangles of quad (i, j).  After the last quad the geometry is
\* made of the two arrays.
PushQuad ==
    LET g == GridOf(input.mesh)
        q == QuadIndices(output.i, output.j, g.V)
    IN  /\ output.phase = "indices"
        /\ output' =
             [output EXCEPT
                !.indices = @ + 6,
                !.quad = <<output.i, output.j>>,
                !.last = q,
                !.lo = IF SeqMin(q) < @ THEN SeqMin(q) ELSE @,
                !.hi = IF SeqMax(q) > @ THEN SeqMax(q) ELSE @,
                !.j = IF output.j < g.V - 1 THEN @ + 1 ELSE 0,
                !.i = IF output.j < g.V - 1 THEN @
                      ELSE IF output.i < g.U - 1 THEN @ + 1 ELSE 0,
                !.phase = IF output.j = g.V - 1 /\ output.i = g.U - 1
                          THEN "done" ELSE @]
        /\ UNCHANGED <<routeVars, uiVars, clockVars, animVars, memoVars, input>>

\* The useMemo factory of one of the meshes starts: both arrays are empty.
InitMesh ==
    /\ RouteInit /\ UiInit /\ ClockInit /\ AnimInit /\ MemoInit
    /\ input \in [mesh : GridMeshes]
    /\ output = [phase |-> "vertices", i |-> 0, j |-> 0, vertices |-> 0,
                 indices |-> 0, quad |-> <<0, 0>>, last |-> << >>,
                 lo |-> 0, hi |-> 0,
                 pushed |-> [i |-> 0, j |-> 0, part |-> "none"]]

NextMesh == PushVertex \/ PushQuad

SpecMesh == InitMesh /\ [][NextMesh]_vars

\* C13: vertex (i, j) of the grid is pushed as vertex number i * (V + 1) + j,
\* (U + 1) * (V + 1) vertices in all; the index loop pushes for each quad
\* (i, j) the two triangles (a, b, c) and (b, d, c) on the vertices a = (i, j),
\* b = (i, j + 1), c = (i + 1, j), d = (i + 1, j + 1), six indices a quad and
\* 6 * U * V in all, each at least 0 and smaller than the vertex count.
C13_TwoTrianglesPerQuad ==
    LET g == GridOf(input.mesh)
        count == (g.U + 1) * (g.V + 1)
        at(i, j) == i * (g.V + 1) + j
    IN  /\ output.phase = "vertices" =>
             output.vertices = at(output.i, output.j) /\ output.indices = 0
        /\ output.phase # "vertices" => output.vertices = count
        /\ output.phase = "indices" =>
             output.indices = 6 * (output.i * g.V + output.j)
        /\ output.phase = "done" => output.indices = 6 * g.U * g.V
        /\ output.indices > 0 =>
             LET i == output.quad[1]
                 j == output.quad[2]
             IN  /\ i < g.U /\ j < g.V
                 /\ output.last = <<at(i, j), at(i, j + 1), at(i + 1, j),
                                    at(i, j + 1), at(i + 1, j + 1), at(i + 1, j)>>
        /\ output.lo >= 0
        /\ output.hi < count

\* The Moebius strip's arrays are complete: 1105 vertices, 6144 indices, the
\* largest of them 1104.
C13_Witness ==
    /\ input.mesh = "MobiusStrip"
    /\ output.phase = "done"
    /\ output.vertices = 1105
    /\ output.indices = 6144
    /\ output.lo = 0 /\ output.hi = 1104

-----------------------------------------------------------------------------
(* The buffers three.js builds for <torusGeometry> and <cylinderGeometry>  *)
(* with the arguments TorusSurface and CylinderSurface hand to them.       *)

\* The geometries of the two components of TangentNormalViz and of the
\* CylinderSurface of ContactNumberViz, with their args.
Geometries ==
    {[kind |-> "torus", of |-> "TorusSurface", radius |-> SCALE,
      tube |-> Lit(4, 10), height |-> 0, rows |-> 32, cols |-> 48,
      openEnded |-> FALSE],
     [kind |-> "torus", of |-> "TorusSurface", radius |-> SCALE,
      tube |-> Lit(4, 10), height |-> 0, rows |-> 16, cols |-> 24,
      openEnded |-> FALSE],
     [kind |-> "cylinder", of |-> "CylinderSurface", radius |-> SCALE,
      tube |-> 0, height |-> Lit(25, 10), rows |-> 1, cols |-> 48,
      openEnded |-> TRUE],
     [kind |-> "cylinder", of |-> "CylinderSurface", radius |-> SCALE,
      tube |-> 0, height |-> Lit(25, 10), rows |-> 1, cols |-> 24,
      openEnded |-> TRUE],
     [kind |-> "cylinder", of |-> "ContactNumberViz.CylinderSurface",
      radius |-> SCALE, tube |-> 0, height |-> 3 * SCALE, rows |-> 1,
      cols |-> 48, openEnded |-> TRUE]}

\* TorusGeometry(radius, tube, radialSegments, tubularSegments): the vertex
\* of row j (around the tube) and column i (around the ring).
TorusVertex(g, j, i) ==
    LET u == RDiv(i * TwoPi, g.cols)
        v == RDiv(j * TwoPi, g.rows)
        ring == g.radius + Mul(g.tube, Cos(v))
    IN  Vector3(Mul(ring, Cos(u)), Mul(ring, Sin(u)), Mul(g.tube, Sin(v)))

\* The outward direction of the torus at that vertex.
TorusOutward(g, j, i) ==
    LET u == RDiv(i * TwoPi, g.cols)
        v == RDiv(j * TwoPi, g.rows)
    IN  Vector3(Mul(Cos(v), Cos(u)), Mul(Cos(v), Sin(u)), Sin(v))

\* CylinderGeometry(radius, radius, height, radialSegments, heightSegments,
\* openEnded): the vertex of row y (top to bottom) and column x.
CylinderVertex(g, y, x) ==
    LET theta == RDiv(x * TwoPi, g.cols)
    IN  Vector3(Mul(g.radius, Sin(theta)),
                RDiv(g.height, 2) - RDiv(y * g.height, g.rows),
                Mul(g.radius, Cos(theta)))

\* The outward direction of the cylinder at that vertex.
CylinderOutward(g, y, x) ==
    LET theta == RDiv(x * TwoPi, g.cols)
    IN  Vector3(Sin(theta), 0, Cos(theta))

\* The vertex with index k of a geometry, and the outward direction there:
\* both builders push their rows of cols + 1 vertices one after the other.
VertexAt(g, k) ==
    IF g.kind = "torus"
    THEN TorusVertex(g, k \div (g.cols + 1), k % (g.cols + 1))
    ELSE CylinderVertex(g, k \div (g.cols + 1), k % (g.cols + 1))

OutwardAt(g, k) ==
    IF g.kind = "torus"
    THEN TorusOutward(g, k \div (g.cols + 1), k % (g.cols + 1))
    ELSE CylinderOutward(g, k \div (g.cols + 1), k % (g.cols + 1))

\* The second triangle of a quad is pushed the other way round.
TorusQuadFlipped(g, j, i) ==
    LET a == (g.cols + 1) * j + i - 1
        b == (g.cols + 1) * (j - 1) + i - 1
        c == (g.cols + 1) * (j - 1) + i
        d == (g.cols + 1) * j + i
    IN  <<<<a, b, d>>, <<b, d, c>>>>

\* TorusGeometry, for j in 1..radialSegments, i in 1..tubularSegments:
\* indices.push(a, b, d); indices.push(b, c, d).
TorusQuad(g, j, i) ==
    LET a == (g.cols + 1) * j + i - 1
        b == (g.cols + 1) * (j - 1) + i - 1
        c == (g.cols + 1) * (j - 1) + i
        d == (g.cols + 1) * j + i
    IN  <<<<a, b, d>>, <<b, c, d>>>>

\* CylinderGeometry's torso, for x in 0..radialSegments - 1,
\* y in 0..heightSegments - 1: a = indexArray[y][x], b = indexArray[y + 1][x],
\* c = indexArray[y + 1][x + 1], d = indexArray[y][x + 1];
\* indices.push(a, b, d); indices.push(b, c, d).
CylinderQuad(g, y, x) ==
    LET a == (g.cols + 1) * y + x
        b == (g.cols + 1) * (y + 1) + x
        c == (g.cols + 1) * (y + 1) + x + 1
        d == (g.cols + 1) * y + x + 1
    IN  <<<<a, b, d>>, <<b, c, d>>>>

\* The face normal of a triangle, (B - A) x (C - A), as the renderer takes it.
FaceNormal(g, t) ==
    CrossVectors(Sub(VertexAt(g, t[2]), VertexAt(g, t[1])),
                 Sub(VertexAt(g, t[3]), VertexAt(g, t[1])))

\* Which way a triangle winds: 1 when its face normal points outward, -1
\* when inward, 0 when it has none (a degenerate triangle).
Winding(g, t) ==
    LET side == Dot(FaceNormal(g, t), OutwardAt(g, t[1]))
    IN  IF FaceNormal(g, t) = Vector3(0, 0, 0) \/ side = 0 THEN 0
        ELSE IF side > 0 THEN 1 ELSE -1

\* One pass of the torus's inner index loop.
PushTorusQuad ==
    LET g == input.geometry
    IN  /\ g.kind = "torus"
        /\ ~output.done
        /\ output' =
             [output EXCEPT
                !.triangles = @ + 2,
                !.last = TorusQuad(g, output.row, output.col),
                !.col = IF output.col < g.cols THEN @ + 1 ELSE 1,
                !.row = IF output.col < g.cols THEN @ ELSE @ + 1,
                !.done = output.col = g.cols /\ output.row = g.rows]
        /\ UNCHANGED <<routeVars, uiVars, clockVars, animVars, memoVars, input>>

\* One pass of the cylinder's inner index loop; an open-ended cylinder has
\* no caps, and the buffer is complete after the torso.
PushCylinderQuad ==
    LET g == input.geometry
    IN  /\ g.kind = "cylinder"
        /\ ~output.done
        /\ output' =
             [output EXCEPT
                !.triangles = @ + 2,
                !.last = CylinderQuad(g, output.row, output.col),
                !.row = IF output.row < g.rows - 1 THEN @ + 1 ELSE 0,
                !.col = IF output.row < g.rows - 1 THEN @ ELSE @ + 1,
                !.done = output.row = g.rows - 1 /\ output.col = g.cols - 1
                         /\ g.openEnded]
        /\ UNCHANGED <<routeVars, uiVars, clockVars, animVars, memoVars, input>>

\* The index loops of a geometry start: j = 1, i = 1 for the torus, x = 0,
\* y = 0 for the cylinder.
InitGeometry ==
    /\ RouteInit /\ UiInit /\ ClockInit /\ AnimInit /\ MemoInit
    /\ input \in [geometry : Geometries]
    /\ output = [row |-> IF input.geometry.kind = "torus" THEN 1 ELSE 0,
                 col |-> IF input.geometry.kind = "torus" THEN 1 ELSE 0,
                 triangles |-> 0, last |-> << >>, done |-> FALSE]

NextGeometry == PushTorusQuad \/ PushCylinderQuad

SpecGeometry == InitGeometry /\ [][NextGeometry]_vars

\* C14: in the torus buffers (32 x 48 and 16 x 24 segments) and the
\* open-ended cylinder buffers (48 and 24 radial segments, one height
\* segment), every triangle winds the same way, its face normal pointing
\* outward; the two triangles of a quad run along their common edge in
\* opposite directions; no triangle is degenerate: its three indices differ,
\* are those of vertices of the buffer, and it has a face normal; a
\* complete buffer has two triangles for each quad.
C14_ConsistentWinding ==
    LET g == input.geometry
    IN  /\ output.triangles > 0 =>
             /\ \A k \in 1..2 :
                  LET t == output.last[k]
                  IN  /\ Winding(g, t) = 1
                      /\ Cardinality({t[1], t[2], t[3]}) = 3
                      /\ \A n \in 1..3 :
                           t[n] >= 0 /\ t[n] < (g.rows + 1) * (g.cols + 1)
             /\ output.last[1][2] = output.last[2][1]
             /\ output.last[1][3] = output.last[2][3]
        /\ output.done => output.triangles = 2 * g.rows * g.cols

\* The 32 x 48 torus buffer is complete, with its 3072 triangles.
C14_Witness ==
    /\ input.geometry.kind = "torus"
    /\ input.geometry.rows = 32
    /\ output.done
    /\ output.triangles = 3072
    /\ Winding(input.geometry, output.last[2]) = 1

-----------------------------------------------------------------------------
(* IsotropyComparisonViz: IsotropicScene and NonIsotropicScene side by     *)
(* side, each in the Canvas of its own Viz.                                *)

ComparisonScenes == {"IsotropicScene", "NonIsotropicScene"}

\* IsotropyComparisonViz mounts: IsotropicViz and NonIsotropicViz each make
\* a Canvas with its clock, and each scene its own useState(0); the
\* ellipsoid is built in NonIsotropicScene's first render.
MountComparison ==
    /\ DOMAIN time = {}
    /\ time' = [s \in ComparisonScenes |-> 0]
    /\ clockStart' = [c \in {"IsotropicViz", "NonIsotropicScene"} |-> now]
    /\ oldTime' = [c \in {"IsotropicViz", "NonIsotropicScene"} |-> now]
    /\ UNCHANGED curvature
    /\ memo' = [c \in {"NonIsotropicScene"} |-> FirstRender(c)]
    /\ UNCHANGED <<routeVars, uiVars, now, animVars, fnVars>>

\* IsotropyComparisonViz unmounts: both scenes and their state are gone.
UnmountComparison ==
    /\ DOMAIN time # {}
    /\ time' = << >>
    /\ clockStart' = << >>
    /\ oldTime' = << >>
    /\ memo' = << >>
    /\ UNCHANGED <<routeVars, uiVars, now, animVars, curvature, fnVars>>

\* The wall clock advances by one tick between two frames.
TickClock ==
    /\ now < MaxTicks
    /\ now' = now + 1
    /\ UNCHANGED <<routeVars, uiVars, clockStart, oldTime, time, animVars,
                   memoVars, fnVars>>

InitComparison ==
    RouteInit /\ UiInit /\ ClockInit /\ AnimInit /\ MemoInit /\ FnInit

NextComparison ==
    \/ TickClock
    \/ MountComparison
    \/ UnmountComparison
    \/ FrameIsotropic
    \/ FrameNonIsotropic

SpecComparison == InitComparison /\ [][NextComparison]_vars

\* The value scene s holds changes in this step.
TimeWritten(s) ==
    /\ s \in DOMAIN time
    /\ s \in DOMAIN time'
    /\ time'[s] # time[s]

\* C15: the two scenes share no state: the value each holds is the elapsed
\* time of its own Canvas at its own last frame, whatever frames the other
\* has run since, and a step that changes the value of one scene is that
\* scene's own frame callback and leaves the other's value as it was.
C15_ScenesShareNoState ==
    /\ [](DOMAIN time # {} =>
            /\ time["IsotropicScene"] =
                 oldTime["IsotropicViz"] - clockStart["IsotropicViz"]
            /\ time["NonIsotropicScene"] =
                 oldTime["NonIsotropicScene"] - clockStart["NonIsotropicScene"])
    /\ [][/\ TimeWritten("IsotropicScene") =>
               /\ FrameIsotropic
               /\ time'["NonIsotropicScene"] = time["NonIsotropicScene"]
          /\ TimeWritten("NonIsotropicScene") =>
               /\ FrameNonIsotropic
               /\ time'["IsotropicScene"] = time["IsotropicScene"]]_vars

\* Both scenes have run frames since the mount, at different times: they
\* hold different values.
C15_Witness ==
    /\ DOMAIN time = ComparisonScenes
    /\ time["IsotropicScene"] > 0
    /\ time["NonIsotropicScene"] > time["IsotropicScene"]
    /\ memo["NonIsotropicScene"].renders > 1

-----------------------------------------------------------------------------
(* Chapter1Viz: the selected manifold and the one shape it mounts.         *)

\* The manifolds array: the ids of its four entries, in order.
Manifolds ==
    <<[id |-> "sphere", labelEn |-> "Sphere S2"],
      [id |-> "torus", labelEn |-> "Torus T2"],
      [id |-> "klein", labelEn |-> "Klein Bottle"],
      [id |-> "mobius", labelEn |-> "Moebius Strip"]>>

\* manifolds.find(m => m.id === sel): the first entry with that id, or
\* undefined.
FindManifold(sel) ==
    LET hits == {k \in 1..Len(Manifolds) : Manifolds[k].id = sel}
    IN  IF hits = {} THEN [found |-> FALSE, value |-> Manifolds[1]]
        ELSE [found |-> TRUE,
              value |-> Manifolds[CHOOSE k \in hits : \A h \in hits : k <= h]]

\* The switch has no case for 'mobius'.
RenderManifoldNoMobius(sel) ==
    CASE sel = "sphere" -> "RotatingSphere"
      [] sel = "torus"  -> "RotatingTorus"
      [] sel = "klein"  -> "RotatingKleinBottle"
      [] OTHER          -> "undefined"

\* renderManifold: the switch over selected; no case, no element.
RenderManifold(sel) ==
    CASE sel = "sphere" -> "RotatingSphere"
      [] sel = "torus"  -> "RotatingTorus"
      [] sel = "klein"  -> "RotatingKleinBottle"
      [] sel = "mobius" -> "MobiusStrip"
      [] OTHER          -> "undefined"

\* The shape of the old selection stays mounted beside the new one.
SelectManifoldKeepMounted(m) ==
    /\ selected' = m
    /\ clicked' = [clicked EXCEPT !["selected"] = m]
    /\ rotation' = IF m = selected THEN rotation
                   ELSE Put(rotation, RenderManifold(m), NoRotation)
    /\ UNCHANGED <<routeVars, shape, direction, contactNumber, clockVars,
                   memoVars, fnVars>>

\* onClick={() => setSelected(m.id)}: Chapter1Viz renders again, and the
\* child of ThreeCanvas is renderManifold()'s element.  An element of
\* another component takes the place of the old one: the old shape unmounts,
\* with its mesh and its useFrame subscription, and the new one mounts with a
\* new mesh.  The same id again changes nothing.
SelectManifold(m) ==
    /\ selected' = m
    /\ clicked' = [clicked EXCEPT !["selected"] = m]
    /\ rotation' = IF m = selected THEN rotation
                   ELSE [c \in {RenderManifold(m)} |-> NoRotation]
    /\ UNCHANGED <<routeVars, shape, direction, contactNumber, clockVars,
                   memoVars, fnVars>>

\* A frame of the canvas: the useFrame callback of the shape for m runs if
\* that shape is mounted, if (ref.current) rotation += delta * rate.
FrameShape(m) ==
    /\ RenderManifold(m) \in DOMAIN rotation
    /\ rotation' = [rotation EXCEPT ![RenderManifold(m)] =
                      RotateManifold(@, m, Delta("Chapter1Viz"))]
    /\ oldTime' = [oldTime EXCEPT !["Chapter1Viz"] = now]
    /\ UNCHANGED <<routeVars, uiVars, now, clockStart, time, memoVars, fnVars>>

\* Chapter1Viz after its mount: useState('sphere'), the sphere's new mesh.
InitChapter1 ==
    /\ RouteInit /\ UiInit /\ MemoInit /\ FnInit
    /\ now = 0
    /\ clockStart = [c \in {"Chapter1Viz"} |-> 0]
    /\ oldTime = [c \in {"Chapter1Viz"} |-> 0]
    /\ time = << >>
    /\ rotation = [c \in {RenderManifold("sphere")} |-> NoRotation]

NextChapter1 ==
    \/ TickClock
    \/ \E k \in 1..Len(Manifolds) : SelectManifold(Manifolds[k].id)
    \/ \E m \in ManifoldTypes : FrameShape(m)

SpecChapter1 == InitChapter1 /\ [][NextChapter1]_vars

\* C16: exactly one shape is mounted, the one for the selected manifold; a
\* selection of another manifold unmounts the shape shown before and mounts
\* the new one at zero rotation; the only rotation a step changes is that of
\* the mounted shape of the selection, so an unmounted shape's callback
\* updates nothing.
C16_OneShapeMounted ==
    /\ [](DOMAIN rotation = {RenderManifold(selected)})
    /\ [][/\ selected' # selected =>
               /\ RenderManifold(selected) \notin DOMAIN rotation'
               /\ rotation'[RenderManifold(selected')] = NoRotation
          /\ \A c \in DOMAIN rotation \cap DOMAIN rotation' :
               rotation'[c] # rotation[c] =>
                   c = RenderManifold(selected) /\ selected' = selected]_vars

\* The Klein bottle has just been selected, after a frame turned the shape
\* shown before: it is the one mounted shape, at zero rotation.
C16_Witness ==
    /\ clicked["selected"] = "klein" /\ selected = "klein"
    /\ oldTime["Chapter1Viz"] > 0
    /\ rotation = [c \in {"RotatingKleinBottle"} |-> NoRotation]

\* C20: in every reachable state of Chapter1Viz selected is one of 'sphere',
\* 'torus', 'klein', 'mobius'; manifolds.find returns the entry with that id,
\* never undefined; and renderManifold returns one of the four shapes.
C20_SelectionBounded ==
    /\ selected \in {"sphere", "torus", "klein", "mobius"}
    /\ FindManifold(selected).found
    /\ FindManifold(selected).value.id = selected
    /\ RenderManifold(selected) \in
         {"RotatingSphere", "RotatingTorus", "RotatingKleinBottle",
          "MobiusStrip"}

\* The last button has been clicked: the strip's entry is the current
\* manifold and the strip is the shape shown.
C20_Witness ==
    /\ clicked["selected"] = "mobius" /\ selected = "mobius"
    /\ FindManifold(selected).value.labelEn = "Moebius Strip"
    /\ "MobiusStrip" \in DOMAIN rotation
    /\ rotation["MobiusStrip"].y > 0

-----------------------------------------------------------------------------
(* The bilingual inline strings of the pages and the active language.      *)

\* The values i18n.language takes: the two locales of the tutorial and the
\* regional tags a browser reports.
Languages == {"zh", "en", "zh-CN", "en-US"}

\* Every tag of the Chinese language counts as Chinese.
IsZhAnyChinese == language \in {"zh", "zh-CN"}

\* const isZh = i18n.language === 'zh'.
IsZh == language = "zh"

\* The pages with inline strings and some of the pairs each writes, the
\* Chinese variant first (transliterated), as in {isZh ? zh : en}.
BilingualPages == {"Home", "Chapter2", "Chapter5"}

InlineStrings(page) ==
    CASE page = "Home" ->
           <<[zh |-> "qiumian S2 yu huanmian T2",
              en |-> "Sphere S2 and Torus T2"],
             [zh |-> "jiaocheng jiegou", en |-> "Tutorial Structure"],
             [zh |-> "jiaocheng tese", en |-> "Features"]>>
      [] page = "Chapter2" ->
           <<[zh |-> "2.1 qianru yu jinru",
              en |-> "2.1 Embeddings and Immersions"],
             [zh |-> "shengzi leibi", en |-> "String Analogy"]>>
      [] page = "Chapter5" ->
           <<[zh |-> "benzhang jiyu: Chen and Li (2004)",
              en |-> "Based on: Chen and Li (2004)"],
             [zh |-> "5.1 quxian de jiechu shi shenme yisi",
              en |-> "5.1 What Does Contact Between Curves Mean?"]>>
      [] OTHER -> << >>

\* {isZh ? zh : en}: the variant a render of the page shows for pair s.
Inline(s) == IF IsZh THEN s.zh ELSE s.en

\* The inline strings the page shows in a render.
PageText(page) ==
    [k \in DOMAIN InlineStrings(page) |-> Inline(InlineStrings(page)[k])]

\* The page the router's Outlet shows, if the URL matches a route.
CurrentPage ==
    IF rendered = << >> THEN "none" ELSE rendered[Len(rendered)]

\* The reader switches the language: i18n.language is l, and the pages,
\* which read it through useTranslation, render again.
ChangeLanguage(l) ==
    /\ language' = l
    /\ UNCHANGED <<path, rendered, uiVars, clockVars, animVars, memoVars,
                   fnVars>>

\* The app in any of the languages, on the Home page, with Chapter1Viz's
\* widget state and clock as after its mount.
InitLanguage ==
    /\ path = << >>
    /\ rendered = MatchRoutes(<< >>)
    /\ language \in Languages
    /\ UiInit /\ MemoInit /\ FnInit
    /\ now = 0
    /\ clockStart = [c \in {"Chapter1Viz"} |-> 0]
    /\ oldTime = [c \in {"Chapter1Viz"} |-> 0]
    /\ time = << >>
    /\ rotation = [c \in {RenderManifold("sphere")} |-> NoRotation]

NextLanguage ==
    \/ \E l \in Languages : ChangeLanguage(l)
    \/ \E url \in Paths : Len(url) <= 2 /\ Navigate(url)
    \/ \E k \in 1..Len(Manifolds) : SelectManifold(Manifolds[k].id)

SpecLanguage == InitLanguage /\ [][NextLanguage]_vars

\* C17: on the Home page and the chapter pages every inline string shows
\* its Chinese variant exactly when the language is 'zh' and its English
\* variant for every other value, regional tags of Chinese included; a
\* switch of the language changes nothing else: not the URL, the page, a
\* widget's selection, a clock or a rotation.
C17_InlineStringsFollowLanguage ==
    /\ [](\A page \in BilingualPages :
            \A k \in DOMAIN InlineStrings(page) :
                /\ language = "zh" =>
                     PageText(page)[k] = InlineStrings(page)[k].zh
                /\ language # "zh" =>
                     PageText(page)[k] = InlineStrings(page)[k].en)
    /\ [][language' # language =>
            UNCHANGED <<path, rendered, uiVars, clockVars, animVars,
                        memoVars, fnVars>>]_vars

\* Chapter 5 is shown under the tag zh-CN, in English, with the torus
\* selected in Chapter1Viz.
C17_Witness ==
    /\ language = "zh-CN"
    /\ CurrentPage = "Chapter5"
    /\ selected = "torus"
    /\ PageText("Chapter5")[2] = "5.1 What Does Contact Between Curves Mean?"

-----------------------------------------------------------------------------
(* TangentNormalScene: what a render shows, frame after frame and when     *)
(* another surface is selected.                                            *)

\* The time state, a number of ticks of 0.01 s, as the seconds the code
\* computes with.
Seconds(ticks) == ticks * Lit(1, 100)

\* A render of TangentNormalScene with prop s and time state t: the point
\* and normal of getSurfacePointAndNormal(shape, time), handed on to
\* TangentPlane and TangentVectors.
RenderScene(s, t) ==
    LET pn == GetSurfacePointAndNormal(s, Seconds(t))
    IN  [shape |-> s, time |-> t, point |-> pn.point, normal |-> pn.normal,
         plane |-> TangentPlane(pn.point, pn.normal),
         vectors |-> TangentVectors(pn.point, pn.normal)]

\* The frame callback, setTime(clock.getElapsedTime()), and the render that
\* follows a new value.
FrameScene ==
    /\ time' = [time EXCEPT !["TangentNormalScene"] = Elapsed("TangentNormalViz")]
    /\ oldTime' = [oldTime EXCEPT !["TangentNormalViz"] = now]
    /\ output' = IF time' # time
                 THEN RenderScene(shape, time'["TangentNormalScene"])
                 ELSE output
    /\ UNCHANGED <<routeVars, uiVars, now, clockStart, animVars, memoVars,
                   input>>

\* The scene is keyed by its shape: another shape mounts a new scene, whose
\* time starts at 0 again.
SelectShapeRemount(s) ==
    /\ shape' = s
    /\ clicked' = [clicked EXCEPT !["shape"] = s]
    /\ time' = IF s # shape THEN [time EXCEPT !["TangentNormalScene"] = 0]
               ELSE time
    /\ output' = IF s # shape THEN RenderScene(s, 0) ELSE output
    /\ UNCHANGED <<routeVars, direction, selected, contactNumber, now,
                   clockStart, oldTime, animVars, memoVars, input>>

\* onClick={() => setShape(s)}: TangentNormalVizWithLabels renders again and
\* hands the new shape down to the same TangentNormalScene, which keeps its
\* state and renders with the new prop.
SelectShape(s) ==
    /\ shape' = s
    /\ clicked' = [clicked EXCEPT !["shape"] = s]
    /\ output' = IF s # shape
                 THEN RenderScene(s, time["TangentNormalScene"])
                 ELSE output
    /\ UNCHANGED <<routeVars, direction, selected, contactNumber, clockVars,
                   animVars, memoVars, input>>

\* TangentNormalVizWithLabels after its mount: useState('sphere'),
\* useState(0), and the first render.
InitScene ==
    /\ RouteInit /\ UiInit /\ AnimInit /\ MemoInit
    /\ now = 0
    /\ clockStart = [c \in {"TangentNormalViz"} |-> 0]
    /\ oldTime = [c \in {"TangentNormalViz"} |-> 0]
    /\ time = [c \in {"TangentNormalScene"} |-> 0]
    /\ input = "none"
    /\ output = RenderScene("sphere", 0)

NextScene ==
    \/ TickClock
    \/ FrameScene
    \/ \E s \in ShapeTypes : SelectShape(s)

SpecScene == InitScene /\ [][NextScene]_vars

\* C18: what TangentNormalScene shows is computed from the current time and
\* the current shape: the point and normal of getSurfacePointAndNormal
\* (shape, time) and the frame TangentPlane and TangentVectors build from
\* them; the selection of another surface changes the shape and not the
\* time, and the render that follows shows the new surface's point at that
\* time.
C18_RenderFromCurrentTime ==
    /\ [](LET t == time["TangentNormalScene"]
              pn == GetSurfacePointAndNormal(shape, Seconds(t))
          IN  /\ output.shape = shape /\ output.time = t
              /\ output.point = pn.point /\ output.normal = pn.normal
              /\ output.plane = TangentPlane(pn.point, pn.normal)
              /\ output.vectors = TangentVectors(pn.point, pn.normal))
    /\ [][shape' # shape =>
            /\ time' = time
            /\ output'.time = time["TangentNormalScene"]
            /\ output'.point =
                 GetSurfacePointAndNormal(shape',
                     Seconds(time["TangentNormalScene"])).point]_vars

\* The torus was selected after the clock had run: the scene shows the
\* torus's point at the time it had reached.
C18_Witness ==
    /\ clicked["shape"] = "torus" /\ shape = "torus"
    /\ time["TangentNormalScene"] >= 3
    /\ output.shape = "torus"
    /\ output.point =
         TorusPointAndNormal(SCALE, Lit(4, 10),
                             Seconds(time["TangentNormalScene"])).point
    /\ output.point # RenderScene("torus", 0).point

-----------------------------------------------------------------------------
(* CylinderContactScene: the loops of its useMemo that sample the geodesic *)
(* and the normal section through p = (R, 0, 0), for i = 0..N.             *)

\* const N = 200 and const R = 1, as the factory's loops use them.
CurveSamples == [N |-> 200, R |-> SCALE]

\* Math.SQRT2.
Sqrt2 == SqrtOfSquares(2 * SCALE * SCALE)

\* The section's z without the shift that centres the range on p.
SectionZFromZero(i) ==
    Mul(RDiv(i * SCALE, CurveSamples.N), Lit(18, 10))

\* The section's z sampled over the range of the axial loop, -1.2 to 1.2.
SectionZWide(i) ==
    Mul(RDiv(i * SCALE, CurveSamples.N), Lit(24, 10)) - Lit(12, 10)

\* const z = (i / N) * 1.8 - 0.9.
SectionZ(i) ==
    Mul(RDiv(i * SCALE, CurveSamples.N), Lit(18, 10)) - Lit(9, 10)

\* R * R - z * z, the argument of the guard and of Math.sqrt.
SqrtArgument(z) == Mul(CurveSamples.R, CurveSamples.R) - Mul(z, z)

\* Math.sqrt of a fixed-point number.
Sqrt(a) == SqrtOfSquares(a * SCALE)

\* The axial loop: t = (i / N) * 2.4 - 1.2; both curves get [R, t, 0].
PushAxial ==
    LET t == Mul(RDiv(output.i * SCALE, CurveSamples.N), Lit(24, 10))
               - Lit(12, 10)
    IN  /\ input.direction = "axial"
        /\ output.loop = "both"
        /\ output' = [output EXCEPT
                        !.gPts = @ + 1, !.nPts = @ + 1,
                        !.gLast = Vector3(CurveSamples.R, t, 0),
                        !.nLast = Vector3(CurveSamples.R, t, 0),
                        !.gList = Append(@, Vector3(CurveSamples.R, t, 0)),
                        !.nList = Append(@, Vector3(CurveSamples.R, t, 0)),
                        !.i = @ + 1,
                        !.loop = IF output.i = CurveSamples.N
                                 THEN "done" ELSE @]
        /\ UNCHANGED <<routeVars, uiVars, clockVars, animVars, memoVars, input>>

\* A circumferential loop whose normal section is sampled over a shorter
\* arc than the geodesic: theta over PI * 1.0 instead of PI * 1.2.
PushCircumferentialShortSection ==
    LET theta == Mul(Mul(RDiv(output.i * SCALE, CurveSamples.N), Pi),
                     Lit(12, 10)) - Mul(Pi, Lit(6, 10))
        phi == Mul(RDiv(output.i * SCALE, CurveSamples.N), Pi)
                 - Mul(Pi, Lit(5, 10))
        pt == Vector3(Mul(CurveSamples.R, Cos(theta)), 0,
                      Mul(CurveSamples.R, Sin(theta)))
        qt == Vector3(Mul(CurveSamples.R, Cos(phi)), 0,
                      Mul(CurveSamples.R, Sin(phi)))
    IN  /\ input.direction = "circumferential"
        /\ output.loop = "both"
        /\ output' = [output EXCEPT
                        !.gPts = @ + 1, !.nPts = @ + 1,
                        !.gLast = pt, !.nLast = qt,
                        !.gList = Append(@, pt), !.nList = Append(@, qt),
                        !.i = @ + 1,
                        !.loop = IF output.i = CurveSamples.N
                                 THEN "done" ELSE @]
        /\ UNCHANGED <<routeVars, uiVars, clockVars, animVars, memoVars, input>>

\* The circumferential loop: theta = (i / N) * PI * 1.2 - PI * 0.6; both
\* curves get [R cos theta, 0, R sin theta].
PushCircumferential ==
    LET theta == Mul(Mul(RDiv(output.i * SCALE, CurveSamples.N), Pi),
                     Lit(12, 10)) - Mul(Pi, Lit(6, 10))
        pt == Vector3(Mul(CurveSamples.R, Cos(theta)), 0,
                      Mul(CurveSamples.R, Sin(theta)))
    IN  /\ input.direction = "circumferential"
        /\ output.loop = "both"
        /\ output' = [output EXCEPT
                        !.gPts = @ + 1, !.nPts = @ + 1,
                        !.gLast = pt, !.nLast = pt,
                        !.gList = Append(@, pt), !.nList = Append(@, pt),
                        !.i = @ + 1,
                        !.loop = IF output.i = CurveSamples.N
                                 THEN "done" ELSE @]
        /\ UNCHANGED <<routeVars, uiVars, clockVars, animVars, memoVars, input>>

\* The first diagonal loop, the helix: t = (i / N) * 3.0 - 1.5,
\* omega = 1 / (R * SQRT2), vy = 1 / SQRT2; the geodesic gets
\* [R cos(omega t), vy t, R sin(omega t)].
PushHelix ==
    LET omega == RDiv(SCALE * SCALE, Mul(CurveSamples.R, Sqrt2))
        vy == RDiv(SCALE * SCALE, Sqrt2)
        t == Mul(RDiv(output.i * SCALE, CurveSamples.N), 3 * SCALE)
               - Lit(15, 10)
        pt == Vector3(Mul(CurveSamples.R, Cos(Mul(omega, t))),
                      Mul(vy, t),
                      Mul(CurveSamples.R, Sin(Mul(omega, t))))
    IN  /\ input.direction = "diagonal"
        /\ output.loop = "geodesic"
        /\ output' = [output EXCEPT
                        !.gPts = @ + 1,
                        !.gLast = pt,
                        !.gList = Append(@, pt),
                        !.i = IF output.i = CurveSamples.N THEN 0 ELSE @ + 1,
                        !.loop = IF output.i = CurveSamples.N
                                 THEN "section" ELSE @]
        /\ UNCHANGED <<routeVars, uiVars, clockVars, animVars, memoVars, input>>

\* The second diagonal loop, the normal section: if (R * R - z * z < 0)
\* continue; x = Math.sqrt(R * R - z * z); the section gets [x, z, z].
PushNormalSection ==
    LET z == SectionZ(output.i)
        arg == SqrtArgument(z)
    IN  /\ input.direction = "diagonal"
        /\ output.loop = "section"
        /\ output' =
             IF arg < 0
             THEN [output EXCEPT
                     !.skipped = @ + 1, !.arg = arg, !.i = @ + 1,
                     !.loop = IF output.i = CurveSamples.N THEN "done" ELSE @]
             ELSE [output EXCEPT
                     !.nPts = @ + 1, !.arg = arg,
                     !.nLast = Vector3(Sqrt(arg), z, z),
                     !.nList = Append(@, Vector3(Sqrt(arg), z, z)),
                     !.i = @ + 1,
                     !.loop = IF output.i = CurveSamples.N THEN "done" ELSE @]
        /\ UNCHANGED <<routeVars, uiVars, clockVars, animVars, memoVars, input>>

\* The useMemo factory starts for one of the three directions, with gPts
\* and nPts empty.
InitCurves ==
    /\ RouteInit /\ UiInit /\ ClockInit /\ AnimInit /\ MemoInit
    /\ input \in [direction : DirectionModes]
    /\ output = [loop |-> IF input.direction = "diagonal"
                          THEN "geodesic" ELSE "both",
                 i |-> 0, gPts |-> 0, nPts |-> 0, skipped |-> 0,
                 arg |-> SCALE,
                 gLast |-> Vector3(0, 0, 0), nLast |-> Vector3(0, 0, 0),
                 gList |-> << >>, nList |-> << >>]

NextCurves ==
    PushAxial \/ PushCircumferential \/ PushHelix \/ PushNormalSection

SpecCurves == InitCurves /\ [][NextCurves]_vars

\* C19: for each of the three directions the loops never leave the domain
\* of a computation: in the diagonal case R * R - z * z is never negative,
\* for none of the 201 values of z, so no sample is skipped; and the
\* geodesic and the normal section each have 201 points when the factory
\* returns.
C19_CurveDomainsValid ==
    /\ output.arg >= 0
    /\ output.skipped = 0
    /\ output.loop = "section" => SqrtArgument(SectionZ(output.i)) >= 0
    /\ output.gPts <= CurveSamples.N + 1 /\ output.nPts <= CurveSamples.N + 1
    /\ output.loop = "done" => output.gPts = 201 /\ output.nPts = 201

\* The diagonal factory has returned: 201 points on each curve, the last
\* of the section at z = 0.9, where R * R - z * z is 0.19.
C19_Witness ==
    /\ input.direction = "diagonal"
    /\ output.loop = "done"
    /\ output.gPts = 201 /\ output.nPts = 201
    /\ output.nLast.z = Lit(9, 10)
    /\ output.arg = Lit(19, 100)

-----------------------------------------------------------------------------
(* ContactNumberVizWithControls (sphere): what a render shows for the      *)
(* slider's value.                                                         *)

\* The rows of the contact order check: [0, 1, 2, 3].map((order) => ...).
OrderRows == 0..3

\* A row is marked as same, in green: order <= contactNumber.
OrderSame(order, cn) == order <= cn

\* The label beside the slider: contactNumber === 4 ? '∞' : contactNumber.
ContactNumberLabel(cn) == IF cn = 4 THEN "infinity" ELSE ToString(cn)

\* An offset that stays zero only from 4 on.
OffsetFromFour(cn, t) ==
    IF cn >= 4 THEN 0 ELSE Mul(Lit(5, 100), Sin(t))

\* ContactNumberScene: contactNumber >= 3 ? 0 : 0.05 * Math.sin(time).
Offset(cn, t) ==
    IF cn >= 3 THEN 0 ELSE Mul(Lit(5, 100), Sin(t))

\* The offset of the scene as it is rendered now.
SceneOffset == Offset(contactNumber, time["ContactNumberScene"] * Lit(1, 100))

\* The offset animation is enabled: some time value gives a non-zero offset.
OffsetEnabled(cn) ==
    \E t \in 0..MaxNow : Offset(cn, t * Lit(1, 100)) # 0

\* What holds of every render of the sphere widget.
ContactNumberRender ==
    /\ contactNumber \in {2, 3, 4}
    /\ \A k \in 0..2 : OrderSame(k, contactNumber)
    /\ \A k \in OrderRows : OrderSame(k, contactNumber) <=> k <= contactNumber
    /\ ContactNumberLabel(contactNumber) = "infinity" <=> contactNumber = 4
    /\ OffsetEnabled(contactNumber) <=> ~OrderSame(3, contactNumber)
    /\ OffsetEnabled(contactNumber) <=> contactNumber = 2
    /\ SceneOffset # 0 => ~OrderSame(3, contactNumber)

\* C21: in the sphere ContactNumberVizWithControls contactNumber starts at 3
\* and the slider keeps it in {2, 3, 4}; in every reachable state rows 0, 1
\* and 2 are marked as same, row k is marked as same exactly when
\* k <= contactNumber, the label shows the infinity sign exactly when
\* contactNumber is 4, and the offset of the normal section can be non-zero
\* exactly when row 3 is marked as different, that is when contactNumber is 2.
C21_ContactNumberRender ==
    /\ contactNumber = 3
    /\ []ContactNumberRender

\* The slider was moved to 2 and a frame ran after the clock advanced: row 3
\* is marked as different and the section is drawn with a non-zero offset.
C21_Witness ==
    /\ contactNumber = 2
    /\ time["ContactNumberScene"] > 0
    /\ SceneOffset # 0
    /\ ~OrderSame(3, contactNumber)
    /\ ContactNumberLabel(contactNumber) = "2"

-----------------------------------------------------------------------------
(* ContactNumberVizWithControls (cylinder): what a render shows for the    *)
(* chosen direction, in the scene and in the panels around it.             *)

\* A factory whose last branch also takes the circumferential direction.
ContactOrderTwoBranches(d) ==
    IF d = "axial" THEN "infinity" ELSE "2"

\* CylinderContactScene: cOrder, as the three branches of the factory set it.
ContactOrder(d) ==
    IF d = "axial" THEN "infinity"
    ELSE IF d = "circumferential" THEN "infinity"
    ELSE "2"

\* CylinderContactScene: nLabel, empty unless the last branch is taken.
NormalLabel(d) ==
    IF d = "axial" THEN ""
    ELSE IF d = "circumferential" THEN ""
    ELSE "beta (ellipse)"

\* The order field of directionInfo, shown on each selector button.
DirectionInfo ==
    [axial           |-> [en |-> "Axial", order |-> "infinity"],
     circumferential |-> [en |-> "Circumferential", order |-> "infinity"],
     diagonal        |-> [en |-> "Diagonal (45 deg)", order |-> "2"]]

\* The three cells of the summary, each with its own literal; the cell of
\* the current direction carries the ring.
SummaryCells ==
    << [direction |-> "axial", order |-> "infinity"],
       [direction |-> "circumferential", order |-> "infinity"],
       [direction |-> "diagonal", order |-> "2"] >>

\* The order in the cell that is ringed for direction d.
SummaryOrder(d) ==
    LET k == CHOOSE k \in 1..Len(SummaryCells) : SummaryCells[k].direction = d
    IN  SummaryCells[k].order

\* normalSectionPts.length for direction d: one point per pass of the loop
\* that does not take the continue.
NormalSectionPtsLength(d) ==
    IF d = "diagonal"
    THEN Cardinality({i \in 0..CurveSamples.N :
                        ~(SqrtArgument(SectionZ(i)) < 0)})
    ELSE CurveSamples.N + 1

\* const showBothCurves = direction === 'diagonal'.
ShowBothCurves(d) == d = "diagonal"

\* The guard of the normal section's Line and of its Html label:
\* showBothCurves && normalSectionPts.length > 1.
NormalSectionDrawn(d) == ShowBothCurves(d) /\ NormalSectionPtsLength(d) > 1

\* The classes of the explanation panel.
ExplanationStyle(d) ==
    IF d = "diagonal" THEN "bg-red-900/20 border-red-700"
    ELSE "bg-green-900/20 border-green-700"

\* C22: in the cylinder ContactNumberVizWithControls, for every reachable
\* direction the contact order shown inside the scene equals the order on
\* the selected button and in the ringed cell of the summary: infinity for
\* axial and circumferential, 2 for diagonal; the separate normal section
\* curve and its label are drawn exactly when the direction is diagonal, and
\* the explanation panel has the warning style exactly then.
C22_OrdersAgree ==
    /\ ContactOrder(direction) = DirectionInfo[direction].order
    /\ ContactOrder(direction) = SummaryOrder(direction)
    /\ direction \in {"axial", "circumferential"}
         => ContactOrder(direction) = "infinity"
    /\ direction = "diagonal" => ContactOrder(direction) = "2"
    /\ NormalSectionDrawn(direction) <=> direction = "diagonal"
    /\ NormalSectionDrawn(direction) <=> NormalLabel(direction) # ""
    /\ ExplanationStyle(direction) = "bg-red-900/20 border-red-700"
         <=> direction = "diagonal"

\* The diagonal button was clicked: the scene shows order 2 and draws the
\* section with its 201 points; and the circumferential one: no section.
C22_Witness ==
    /\ clicked["direction"] = "diagonal" /\ direction = "diagonal"
    /\ ContactOrder(direction) = "2"
    /\ NormalSectionDrawn(direction)
    /\ NormalSectionPtsLength(direction) = 201
    /\ ~NormalSectionDrawn("circumferential")
    /\ rotation["CylinderContactScene"].y > 0

-----------------------------------------------------------------------------
(* CylinderContactScene: the two point lists the factory returns.          *)

\* const p = [R, 0, 0], the marked point.
MarkedPoint == Vector3(CurveSamples.R, 0, 0)

\* The factory has returned for the direction of its input.
Returned(d) == input.direction = d /\ output.loop = "done"

\* C23: in CylinderContactScene the geodesic and the normal section coincide
\* completely for the axial and for the circumferential direction: at every
\* step of the loop and when the factory returns the two point lists have
\* the same length and are equal point by point; for the diagonal direction
\* the returned lists are not equal.
C23_CurvesCoincideUnlessDiagonal ==
    /\ input.direction \in {"axial", "circumferential"}
         => /\ Len(output.gList) = Len(output.nList)
            /\ \A i \in 1..Len(output.gList) :
                 output.gList[i] = output.nList[i]
    /\ Returned("diagonal")
         => /\ output.gList # output.nList
            /\ \E i \in 1..Len(output.gList) :
                 ~Near(output.gList[i], output.nList[i])
    /\ Len(output.gList) = output.gPts /\ Len(output.nList) = output.nPts

\* The factory has returned for the circumferential direction with two equal
\* lists of 201 points, none of them repeated along the arc.
C23_Witness ==
    /\ Returned("circumferential")
    /\ Len(output.gList) = 201 /\ output.gList = output.nList
    /\ output.gList[1] # output.gList[201]

\* The sample with loop index i of a returned list (the lists of the model
\* count from 1).
Sample(list, i) == list[i + 1]

\* Math.floor(N / 2), the index of the middle sample of 0..N.
MiddleIndex == CurveSamples.N \div 2

\* C24: in CylinderContactScene, for each of the three directions, both the
\* geodesic and the normal section pass through the marked point
\* p = (R, 0, 0): when the factory returns, the middle sample, index 100 of
\* 0..200, of each point list is p, to the precision of the arithmetic, and
\* the samples next to it are not.
C24_CurvesPassThroughP ==
    output.loop = "done" =>
        /\ Len(output.gList) = CurveSamples.N + 1
        /\ Len(output.nList) = CurveSamples.N + 1
        /\ Near(Sample(output.gList, MiddleIndex), MarkedPoint)
        /\ Near(Sample(output.nList, MiddleIndex), MarkedPoint)
        /\ \A k \in {MiddleIndex - 1, MiddleIndex + 1} :
             /\ ~Near(Sample(output.gList, k), MarkedPoint)
             /\ ~Near(Sample(output.nList, k), MarkedPoint)

\* The factory has returned for the diagonal direction: the helix and the
\* ellipse, which differ at their ends, both have p as sample 100.
C24_Witness ==
    /\ Returned("diagonal")
    /\ Sample(output.gList, 100) = Vector3(SCALE, 0, 0)
    /\ Sample(output.nList, 100) = Vector3(SCALE, 0, 0)
    /\ ~Near(Sample(output.gList, 0), Sample(output.nList, 0))

-----------------------------------------------------------------------------
(* The two entry points of the cylinder widget: the default export         *)
(* ContactNumberViz, which takes a contactNumber prop, and                 *)
(* ContactNumberVizWithControls, which has the direction selector.         *)

EntryPoints == {"ContactNumberViz", "ContactNumberVizWithControls"}

\* The props a parent can hand to ContactNumberViz: none, or a number.
ContactNumberProps ==
    {[given |-> FALSE, contactNumber |-> 0]}
      \cup [given : {TRUE}, contactNumber : 0..(NMax + 2)]

\* A default of 3 for the omitted prop.
ContactNumberDefaultThree(props) ==
    IF props.given THEN props.contactNumber ELSE 3

\* The destructuring { contactNumber = 2 }: the default for an omitted prop.
ContactNumberDefault(props) ==
    IF props.given THEN props.contactNumber ELSE 2

\* ContactNumberViz: direction={contactNumber >= 3 ? 'axial' : 'diagonal'}.
DirectionProp(props) ==
    IF ContactNumberDefault(props) >= 3 THEN "axial" ELSE "diagonal"

\* The direction prop CylinderContactScene is rendered with.
SceneDirection ==
    IF input.entry = "ContactNumberViz"
    THEN DirectionProp(input.props)
    ELSE direction

\* A parent renders ContactNumberViz with the props p.
RenderContactNumberViz(p) ==
    /\ input.entry = "ContactNumberViz"
    /\ input' = [input EXCEPT !.props = p]
    /\ UNCHANGED <<routeVars, uiVars, clockVars, animVars, memoVars, output>>

\* A click in the selector, which only ContactNumberVizWithControls renders.
ClickSelector(d) ==
    /\ input.entry = "ContactNumberVizWithControls"
    /\ ClickDirection(d)

InitEntry ==
    /\ RouteInit /\ UiInit /\ MemoInit
    /\ input \in [entry : {"ContactNumberViz"}, props : ContactNumberProps]
                   \cup {[entry |-> "ContactNumberVizWithControls",
                          props |-> [given |-> FALSE, contactNumber |-> 0]]}
    /\ output = "none"
    /\ now = 0
    /\ clockStart = [c \in {"CylinderContact"} |-> 0]
    /\ oldTime = [c \in {"CylinderContact"} |-> 0]
    /\ time = << >>
    /\ rotation = [m \in {"CylinderContactScene"} |-> NoRotation]

NextEntry ==
    \/ \E p \in ContactNumberProps : RenderContactNumberViz(p)
    \/ \E d \in DirectionModes : ClickSelector(d)
    \/ TickClock
    \/ FrameCylinderContact

SpecEntry == InitEntry /\ [][NextEntry]_vars

\* C25: the default-exported cylinder ContactNumberViz hands the scene the
\* direction 'axial' when its contactNumber prop is at least 3 and 'diagonal'
\* otherwise, which includes the omitted prop with its default 2; the
\* direction 'circumferential' is never shown through this entry point, only
\* through ContactNumberVizWithControls after a click in its selector.
C25_DirectionFromContactNumber ==
    /\ input.entry = "ContactNumberViz" =>
         /\ SceneDirection \in {"axial", "diagonal"}
         /\ SceneDirection = "axial"
              <=> input.props.given /\ input.props.contactNumber >= 3
         /\ ~input.props.given => SceneDirection = "diagonal"
         /\ input.props = [given |-> TRUE, contactNumber |-> 2]
              => SceneDirection = "diagonal"
    /\ SceneDirection = "circumferential" =>
         /\ input.entry = "ContactNumberVizWithControls"
         /\ clicked["direction"] = "circumferential"

\* The default export is rendered without the prop, where a prop of 3 gives
\* the axial direction, and the scene, which has been animated, is diagonal.
C25_Witness ==
    /\ input.entry = "ContactNumberViz"
    /\ ~input.props.given
    /\ SceneDirection = "diagonal"
    /\ DirectionProp([given |-> TRUE, contactNumber |-> 3]) = "axial"
    /\ rotation["CylinderContactScene"].y > 0

-----------------------------------------------------------------------------
(* The previous/next links of the chapter pages.                           *)

\* The chapter numbers the model's URLs range over.
ChapterIds == 0..MaxChapter

\* The URL /chapter/n.
ChapterUrl(n) == <<"chapter", ToString(n)>>

\* Chapter5 with the links of Chapter2, which is defined in the same file.
Chapter5LinksOfChapter2 == [prev |-> ChapterUrl(1), next |-> ChapterUrl(3)]

\* Chapter5: <Link to="/chapter/4"> and <Link to="/chapter/6">.
Chapter5Links == [prev |-> ChapterUrl(4), next |-> ChapterUrl(6)]

\* Chapter2: <Link to="/chapter/1"> and <Link to="/chapter/3">.
Chapter2Links == [prev |-> ChapterUrl(1), next |-> ChapterUrl(3)]

\* Home: <Link to="/chapter/1">, the start button.
HomeLinks == [start |-> ChapterUrl(1)]

\* The number in the URL /chapter/:id.
IdOf(url) == CHOOSE n \in ChapterIds : ChapterUrl(n) = url

\* The pages whose source is not at hand, Chapter1 and the page of the
\* route chapter/:id: the page for chapter N links back to /chapter/(N - 1)
\* and forward to /chapter/(N + 1).
ChapterLinks(id) == [prev |-> ChapterUrl(id - 1), next |-> ChapterUrl(id + 1)]

\* The links of the page rendered at url.
LinksOf(page, url) ==
    CASE page = "Home"     -> HomeLinks
      [] page = "Chapter2" -> Chapter2Links
      [] page = "Chapter5" -> Chapter5Links
      [] page \in {"Chapter1", "Chapter"} -> ChapterLinks(IdOf(url))
      [] OTHER -> << >>

\* The page matchRoutes renders for url.
PageAt(url) ==
    LET r == MatchRoutes(url) IN IF r = << >> THEN "none" ELSE r[Len(r)]

\* The last NMax entries of the history h, after the visit v.
Visit(h, v) ==
    LET all == Append(h, v)
    IN  IF Len(all) <= NMax THEN all
        ELSE SubSeq(all, Len(all) - NMax + 1, Len(all))

\* The user enters the URL of a chapter, or of the home page.
OpenUrl(url) ==
    /\ path' = url
    /\ rendered' = MatchRoutes(url)
    /\ output' = << [path |-> url, page |-> PageAt(url), by |-> "url"] >>
    /\ UNCHANGED <<language, uiVars, clockVars, animVars, memoVars, input>>

\* The user clicks the link named which of the page shown.
FollowLink(which) ==
    /\ which \in DOMAIN LinksOf(CurrentPage, path)
    /\ LET target == LinksOf(CurrentPage, path)[which]
       IN  /\ target \in {ChapterUrl(n) : n \in ChapterIds}
           /\ path' = target
           /\ rendered' = MatchRoutes(target)
           /\ output' = Visit(output, [path |-> target, page |-> PageAt(target),
                                       by |-> which])
    /\ UNCHANGED <<language, uiVars, clockVars, animVars, memoVars, input>>

InitLinks ==
    /\ RouteInit /\ UiInit /\ ClockInit /\ AnimInit /\ MemoInit
    /\ input = "none"
    /\ output = << [path |-> << >>, page |-> "Home", by |-> "url"] >>

NextLinks ==
    \/ \E n \in ChapterIds : OpenUrl(ChapterUrl(n))
    \/ OpenUrl(<< >>)
    \/ \E which \in {"start", "prev", "next"} : FollowLink(which)

SpecLinks == InitLinks /\ [][NextLinks]_vars

\* The pages App's route table names with a chapter number of their own.
DedicatedPages == {"Chapter1", "Chapter2", "Chapter5"}

\* The chapter number in the route path of a dedicated page.
NumberOf(page) ==
    LET k == CHOOSE k \in 1..Len(AppRoutes) : AppRoutes[k].element = page
    IN  IdOf(AppRoutes[k].path)

\* A next link and then a previous link were followed, from a dedicated page.
WentNextThenPrev ==
    /\ Len(output) = NMax
    /\ output[NMax - 2].page \in DedicatedPages
    /\ output[NMax - 1].by = "next"
    /\ output[NMax].by = "prev"

-----------------------------------------------------------------------------
(* TorsionScene and PlanarCurveScene: the parameter of the moving point.   *)

CurveScenes == {"TorsionScene", "PlanarCurveScene"}

\* The time state after k frames' worth of wall clock, in steps of 0.125 s.
FrameTime(k) == k * Lit(1, 8)

\* JavaScript's % on non-negative operands.
Mod(a, b) == a % b

\* TorsionScene: radius = 0.5, pitch = 0.3, and turns={3} of its HelixCurve.
Helix == [radius |-> Lit(5, 10), pitch |-> Lit(3, 10), turns |-> 3]

\* HelixCurve: segments = turns * 50, t = (i / segments) * turns * PI * 2.
HelixSegments == Helix.turns * 50
HelixCurveParameter(i) ==
    Mul(RDiv(i * SCALE, HelixSegments) * Helix.turns, Pi) * 2

\* HelixCurve: the point pushed for the parameter t.
HelixCurvePoint(t) ==
    Vector3(Mul(Helix.radius, Cos(t)), Mul(Helix.radius, Sin(t)),
            Mul(Helix.pitch, t))

\* PlaneCurve: t = (i / 100) * PI * 2, for i = 0..100.
PlaneCurveParameter(i) == Mul(RDiv(i * SCALE, 100), Pi) * 2

\* PlaneCurve: the point pushed for the parameter t.
PlaneCurvePoint(t) ==
    Vector3(t - Pi, Mul(Sin(t * 2), Lit(5, 10)), 0)

\* A helix parameter that is not wrapped.
HelixParameterUnwrapped(seconds) == Mul(seconds, Lit(5, 10))

\* TorsionScene: const t = (time * 0.5) % (3 * Math.PI * 2).
HelixParameter(seconds) == Mod(Mul(seconds, Lit(5, 10)), 3 * Pi * 2)

\* PlanarCurveScene: const t = ((time * 0.3) % 1) * Math.PI * 2.
PlaneParameter(seconds) ==
    Mul(Mod(Mul(seconds, Lit(3, 10)), SCALE), Pi) * 2

\* TorsionScene: position, from radius, pitch and t.
HelixPosition(t) ==
    Vector3(Mul(Lit(5, 10), Cos(t)), Mul(Lit(5, 10), Sin(t)),
            Mul(Lit(3, 10), t))

\* PlanarCurveScene: position.
PlanePosition(t) == Vector3(t - Pi, Mul(Sin(t * 2), Lit(5, 10)), 0)

\* A render of the scene with the time state of frame k; wraps counts the
\* renders whose parameter is less than that of the render before.
RenderCurveScene(scene, k, before) ==
    LET t == IF scene = "TorsionScene" THEN HelixParameter(FrameTime(k))
             ELSE PlaneParameter(FrameTime(k))
    IN  [k |-> k, t |-> t,
         position |-> IF scene = "TorsionScene" THEN HelixPosition(t)
                      ELSE PlanePosition(t),
         wraps |-> IF t < before.t THEN before.wraps + 1 ELSE before.wraps]

\* TorsionScene: the frame callback sets time, d steps later than before,
\* and the scene renders.
FrameTorsionScene(d) ==
    /\ input.scene = "TorsionScene"
    /\ output.k + d <= MaxTime
    /\ output' = RenderCurveScene("TorsionScene", output.k + d, output)
    /\ UNCHANGED <<routeVars, uiVars, clockVars, animVars, memoVars, input>>

\* PlanarCurveScene: the same, with its own parameter.
FramePlanarCurveScene(d) ==
    /\ input.scene = "PlanarCurveScene"
    /\ output.k + d <= MaxTime
    /\ output' = RenderCurveScene("PlanarCurveScene", output.k + d, output)
    /\ UNCHANGED <<routeVars, uiVars, clockVars, animVars, memoVars, input>>

\* The first render, with useState(0).
InitCurveScene ==
    /\ RouteInit /\ UiInit /\ ClockInit /\ AnimInit /\ MemoInit
    /\ input \in [scene : CurveScenes]
    /\ output = RenderCurveScene(input.scene, 0, [t |-> 0, wraps |-> 0])

NextCurveScene ==
    \E d \in 1..NMax : FrameTorsionScene(d) \/ FramePlanarCurveScene(d)

SpecCurveScene == InitCurveScene /\ [][NextCurveScene]_vars

\* The length of the drawn curve's parameter range, and how far a step of
\* d frames moves the parameter.
ParameterEnd(scene) ==
    IF scene = "TorsionScene" THEN HelixCurveParameter(HelixSegments)
    ELSE PlaneCurveParameter(100)

ParameterAdvance(scene, d) ==
    IF scene = "TorsionScene" THEN Mul(FrameTime(d), Lit(5, 10))
    ELSE Mul(Mul(FrameTime(d), Lit(3, 10)), Pi) * 2

ParameterInRange ==
    /\ 0 <= output.t
    /\ output.t < ParameterEnd(input.scene)
    /\ input.scene = "TorsionScene" => output.position = HelixCurvePoint(output.t)
    /\ input.scene = "PlanarCurveScene"
         => output.position = PlaneCurvePoint(output.t)

\* C27: in TorsionScene and PlanarCurveScene the parameter of the moving
\* point, for every time value from 0 on, lies in the parameter range of the
\* drawn curve, [0, 3 * 2 pi) for the helix and [0, 2 pi) for the plane
\* curve, and the point is the curve's point for that parameter; when the
\* parameter decreases from one render to the next it has wrapped around:
\* it was within the step's advance of the end and is within it of the start.
C27_ParameterWraps ==
    /\ []ParameterInRange
    /\ [][ output'.t < output.t =>
             LET adv == ParameterAdvance(input.scene, output'.k - output.k)
             IN  /\ output'.t <= adv + Eps
                 /\ output.t >= ParameterEnd(input.scene) - adv - Eps ]_vars

\* The helix parameter has wrapped once, after 37.7 s, and the point is
\* back near the start of the helix.
C27_Witness ==
    /\ input.scene = "TorsionScene"
    /\ output.wraps = 1
    /\ FrameTime(output.k) > 37 * SCALE
    /\ output.t < Lit(5, 10)
    /\ output.position.z < Lit(2, 10)

-----------------------------------------------------------------------------
(* The triangles of the hand-built meshes, at index level.                 *)

\* The two triangles of the six indices pushed for a quad.
TrianglesOf(q) == {SubSeq(q, 1, 3), SubSeq(q, 4, 6)}

\* The edges of a triangle, in the direction its indices traverse them.
DirectedEdges(tri) ==
    {<<tri[1], tri[2]>>, <<tri[2], tri[3]>>, <<tri[3], tri[1]>>}

Reverse(e) == <<e[2], e[1]>>

\* The directed edges of both triangles of a quad.
QuadEdges(q) == UNION {DirectedEdges(tri) : tri \in TrianglesOf(q)}

\* The quads that the index loops push beside quad (i, j): the next in the
\* row and the one in the next row.
Neighbours(i, j, g) ==
    {n \in {<<i, j + 1>>, <<i + 1, j>>} : n[1] < g.U /\ n[2] < g.V}

\* C28: in the Klein bottle, the figure-8 Klein bottle and the Moebius strip
\* mesh no triangle is degenerate at index level, its three indices being
\* pairwise distinct, and the two triangles (a, b, c) and (b, d, c) of each
\* quad traverse their shared edge b-c in opposite directions; so do the
\* triangles of neighbouring quads with the edge they share, and no edge is
\* traversed twice in one direction: the winding is consistent within every
\* quad and between neighbouring quads.
C28_ConsistentIndexWinding ==
    output.indices > 0 =>
        LET g == GridOf(input.mesh)
            q == output.last
            first == SubSeq(q, 1, 3)
            second == SubSeq(q, 4, 6)
            b == q[2]
            c == q[3]
        IN  /\ \A tri \in TrianglesOf(q) :
                 Cardinality({tri[1], tri[2], tri[3]}) = 3
            /\ Cardinality(TrianglesOf(q)) = 2
            /\ <<b, c>> \in DirectedEdges(first)
            /\ <<c, b>> \in DirectedEdges(second)
            /\ DirectedEdges(first) \cap DirectedEdges(second) = {}
            /\ \A n \in Neighbours(output.quad[1], output.quad[2], g) :
                 LET nq == QuadIndices(n[1], n[2], g.V)
                 IN  /\ QuadEdges(q) \cap QuadEdges(nq) = {}
                     /\ \E e \in QuadEdges(q) : Reverse(e) \in QuadEdges(nq)

\* The index loop of the figure-8 Klein bottle has pushed a quad inside the
\* grid, one with a neighbour in its row and one in the next row.
C28_Witness ==
    /\ input.mesh = "KleinBottleFigure8"
    /\ output.quad = <<3, 7>>
    /\ output.last = <<130, 131, 171, 131, 172, 171>>
    /\ Cardinality(Neighbours(3, 7, GridOf(input.mesh))) = 2
    /\ Cardinality(QuadEdges(output.last)) = 6

-----------------------------------------------------------------------------
(* The bottle-shaped Klein bottle: the formula each grid row is built with. *)

\* The vertex pushed last, before the scaling by 0.05.
PushedUnscaled ==
    IF output.pushed.part = "bottom"
    THEN KleinBottom(output.pushed.i, output.pushed.j)
    ELSE KleinTop(output.pushed.i, output.pushed.j)

\* C29: in the bottle-shaped Klein bottle mesh every grid row uses exactly
\* one of the two position formulas: the rows with u < pi, row index 0..39
\* of 0..80, use the bottom part's formula and the rows with u >= pi, row
\* index 40..80, which includes u = pi exactly at row 40, use the top part's;
\* every pass of the loops pushes one vertex, 81 * 41 in all.
C29_OneFormulaPerRow ==
    input.mesh = "RotatingKleinBottle" =>
        /\ output.vertices > 0 =>
             LET i == output.pushed.i
                 j == output.pushed.j
             IN  /\ output.pushed.part \in {"bottom", "top"}
                 /\ output.pushed.part = "bottom" <=> i \in 0..39
                 /\ output.pushed.part = "top" <=> i \in 40..80
                 /\ output.pushed.part = "bottom" <=> KleinU(i) < Pi
                 /\ i = 40 => KleinU(i) = Pi /\ output.pushed.part = "top"
                 /\ j \in 0..40
                 /\ KleinPoint(i, j) =
                      Vector3(Mul(PushedUnscaled.x, Lit(5, 100)),
                              Mul(PushedUnscaled.y, Lit(5, 100)),
                              Mul(PushedUnscaled.z, Lit(5, 100)))
                 /\ output.phase = "vertices" =>
                      output.vertices = i * 41 + j + 1
        /\ output.phase # "vertices" => output.vertices = 81 * 41

\* The vertex loop has pushed the first vertex of row 40, where u is pi, with
\* the top part's formula, which differs from the bottom part's one row on.
C29_Witness ==
    /\ input.mesh = "RotatingKleinBottle"
    /\ output.phase = "vertices"
    /\ output.pushed = [i |-> 40, j |-> 0, part |-> "top"]
    /\ KleinU(40) = Pi
    /\ KleinTop(41, 0) # KleinBottom(41, 0)
    /\ output.vertices = 40 * 41 + 1

=============================================================================
